---------------------------- MODULE Spec2Model ----------------------------
(***************************************************************************)
(* Oracle card application: the deck engine (src/src/lib/deck.ts) and the  *)
(* selection / confirmation state machine of the Index screen              *)
(* (src/app/index.tsx, the revision that starts at line 1369).             *)
(*                                                                         *)
(* Cards are modelled by their position in the catalog (1, 2, ...).        *)
(* JavaScript arrays are 0-based; sequences here are 1-based, so order[i]  *)
(* of the source is JsAt(order, i).                                        *)
(***************************************************************************)
EXTENDS Integers, Sequences, FiniteSets, TLC

VARIABLES
    probe,                  \* harness of the pure deck functions (SpecDeck)
    deckState,              \* useState<DeckState>            index.tsx:1615
    currentCard,            \* useState<Card | null>          index.tsx:1620
    history,                \* useState<HistoryEntry[]>       index.tsx:1624
    isShuffling,            \* useState(false)                index.tsx:1639
    selectedSlot,           \* useState<number | null>        index.tsx:1641
    selectedSlots,          \* useState<number[]>             index.tsx:1642
    drawMode,               \* useState<DrawMode>("single")   index.tsx:1643
    tripleCards,            \* useState<Card[]>               index.tsx:1644
    activeTripleCardIndex,  \* useState(0)                    index.tsx:1645
    isConfirmOpen,          \* useState(false)                index.tsx:1647
    selectionAnim,          \* Animated.Value + its animation index.tsx:1653
    shuffleAnim,            \* shuffleAnimRef's run           index.tsx:1657
    storage,                \* the key-value store, and loadState's read of it
    favorites,              \* useState<Record<string, boolean>> index.tsx:1625
    journalEntries,         \* useState<JournalEntry[]>      index.tsx:1626
    audio,                  \* the music: state and refs  index.tsx:1630-1679
    cardView,               \* the flip state of the card  index.tsx:1621-1680
    platform,               \* Platform.OS of the build
    lastOp,                 \* the handler that ran last (observation only)
    lastDrawn               \* cards returned by drawNext in the last handler

vars == <<probe, deckState, currentCard, history, isShuffling, selectedSlot,
          selectedSlots, drawMode, tripleCards, activeTripleCardIndex,
          isConfirmOpen, selectionAnim, shuffleAnim, storage, cardView,
          platform, lastOp, lastDrawn, favorites, journalEntries, audio>>

appVars == <<deckState, currentCard, history, isShuffling, selectedSlot,
             selectedSlots, drawMode, tripleCards, activeTripleCardIndex,
             isConfirmOpen, selectionAnim, shuffleAnim, storage, cardView,
             platform, lastOp, lastDrawn, favorites, journalEntries, audio>>

----------------------------------------------------------------------------
(* Bounds *)

\* largest catalog of drawable cards explored
MaxCards == 3
\* Math.random() is explored on the grid k / RandomResolution, 0 <= k < it
RandomResolution == 4
\* fan slots explored (the fan has 6, src/src/lib/fanLayout.ts:16)
FanSlotCount == 4
\* frames a 350 ms timing animation takes from 0 to 1
AnimFrames == 2
\* stored histories explored: from StoredBelowCap entries under the cap of
\* recordHistory up to the cap
StoredBelowCap == 1
\* presses of the card that have not reached onBeforeFlip yet
MaxPendingPresses == 1
\* entries of a stored legacy journal map, items of a stored journal array
MaxStoredItems == 2
\* commands run in a row on the state loadState has set
MaxCommands == 2
\* the latest time a stored entry or a command has, in ms since the epoch
MaxTime == 1
\* journal entries kept
MaxJournalEntries == 2
\* calls of playTrackAtIndex that start a load
MaxLoads == 4

----------------------------------------------------------------------------
(* JavaScript values *)

\* `undefined`: what reading past the end of an array yields
undefined == 0
\* `null`
null == -1

CardIds == 1..MaxCards

\* arr[i] of the source (0-based, undefined out of range)
JsAt(arr, i) == IF i \in 0..(Len(arr) - 1) THEN arr[i + 1] ELSE undefined

Range(s) == {s[i] : i \in 1..Len(s)}

Count(x, s) == Cardinality({i \in 1..Len(s) : s[i] = x})

\* same length and same multiset of elements
IsPermutation(a, b) ==
    /\ Len(a) = Len(b)
    /\ \A x \in Range(a) \cup Range(b) : Count(x, a) = Count(x, b)

IsDistinct(s) == \A i, j \in 1..Len(s) : s[i] = s[j] => i = j

\* the drawable catalog of n cards (drawableCards)
Catalog(n) == [i \in 1..n |-> i]

----------------------------------------------------------------------------
(* Deck engine: src/src/lib/deck.ts *)

\* a swap that loses next[i]: next[i] = next[j] without the exchange
SwapOverwrites(next, i, j) ==
    [k \in 1..Len(next) |-> IF k = i + 1 THEN next[j + 1] ELSE next[k]]

\* [next[i], next[j]] = [next[j], next[i]]   (0-based i, j)
Swap(next, i, j) ==
    [k \in 1..Len(next) |->
        IF k = i + 1 THEN next[j + 1]
        ELSE IF k = j + 1 THEN next[i + 1]
        ELSE next[k]]

\* Math.floor(Math.random() * (i + 1)) when Math.random() = r / RandomResolution
RandomIndex(r, i) == (r * (i + 1)) \div RandomResolution

\* the values Math.random() returns during one shuffle of n cards, by loop index
RandomDraws(n) == [1..(n - 1) -> 0..(RandomResolution - 1)]

\* the values Math.random() returns during one drawNext(state): drawNext
\* calls shuffle, and with it Math.random(), only when the order is empty
RandomDrawsOf(state) ==
    IF Len(state.order) = 0 THEN RandomDraws(Len(state.cards)) ELSE {<<>>}

RECURSIVE ShuffleLoop(_, _, _)
\* for (let i = next.length - 1; i > 0; i -= 1) { swap(i, j) }
ShuffleLoop(next, i, rnd) ==
    IF i > 0
    THEN ShuffleLoop(Swap(next, i, RandomIndex(rnd[i], i)), i - 1, rnd)
    ELSE next

\* a shuffle that works on the argument array itself (const next = cards)
shuffleInPlace(cards, rnd) ==
    LET next == ShuffleLoop(cards, Len(cards) - 1, rnd)
    IN  [cards |-> next, next |-> next]

\* one call of shuffle: the argument array as the call leaves it, and the
\* returned array.  `const next = [...cards]` copies, so the loop's swaps
\* touch the copy only.
shuffleCall(cards, rnd) ==
    [cards |-> cards, next |-> ShuffleLoop(cards, Len(cards) - 1, rnd)]

shuffle(cards, rnd) == shuffleCall(cards, rnd).next

\* drawNext that shuffles on every call
drawNextReshuffling(state, rnd) ==
    LET order == shuffle(state.cards, rnd)
        total == Len(order)
    IN  IF total = 0
        THEN [state |-> state, card |-> JsAt(state.cards, 0)]
        ELSE LET index == state.index % total
             IN  [card  |-> JsAt(order, index),
                  state |-> [state EXCEPT !.order = order,
                                          !.index = (index + 1) % total]]

\* drawNext that does not take the cursor modulo the length
drawNextNoWrap(state, rnd) ==
    LET order == IF Len(state.order) = 0
                 THEN shuffle(state.cards, rnd) ELSE state.order
        total == Len(order)
    IN  IF total = 0
        THEN [state |-> state, card |-> JsAt(state.cards, 0)]
        ELSE [card  |-> JsAt(order, state.index),
              state |-> [state EXCEPT !.order = order,
                                      !.index = state.index + 1]]

drawNext(state, rnd) ==
    LET order == IF Len(state.order) = 0
                 THEN shuffle(state.cards, rnd) ELSE state.order
        total == Len(order)
    IN  IF total = 0
        THEN [state |-> state, card |-> JsAt(state.cards, 0)]
        ELSE LET index == state.index % total
             IN  [card  |-> JsAt(order, index),
                  state |-> [state EXCEPT !.order = order,
                                          !.index = (index + 1) % total]]

----------------------------------------------------------------------------
(* Harness of the deck engine: inputs drawn from bounded sets *)

\* the orderings of the catalog of n cards
Orderings(n) ==
    {p \in [1..n -> 1..n] : \A i, j \in 1..n : p[i] = p[j] => i = j}

\* the deck states of a catalog of n cards: never shuffled (order empty,
\* cursor 0) or shuffled (order a permutation, cursor inside it)
DeckStates(n) ==
    {[cards |-> Catalog(n), order |-> <<>>, index |-> 0]}
    \cup {[cards |-> Catalog(n), order |-> p, index |-> i] :
            p \in Orderings(n), i \in 0..(n - 1)}

\* the card lists handed to shuffle (repeated cards allowed)
CardLists == UNION {[1..k -> CardIds] : k \in 0..MaxCards}

----------------------------------------------------------------------------
(* Persisted values (src/app/index.tsx:1553-1593, 1906-2016, 2772-2781).
   A JavaScript value is a record with its type; a string is the sequence of
   its characters (a card id, a date or a key counts as one character where
   its letters do not matter); an object is the sequence of its entries in
   the order Object.entries gives them. *)

JsUndefined == [type |-> "undefined"]
JsNull == [type |-> "null"]
JsBoolean(value) == [type |-> "boolean", value |-> value]
JsNumber(n) == [type |-> "number", n |-> n]
JsString(chars) == [type |-> "string", chars |-> chars]
JsArray(items) == [type |-> "array", items |-> items]
JsObject(entries) == [type |-> "object", entries |-> entries]

\* the errors thrown: by JSON.parse on a text that is not JSON, and by a
\* read of a property of null or a spread of a value that is not iterable
SyntaxError == [type |-> "SyntaxError"]
TypeError == [type |-> "TypeError"]

\* typeof value
typeof(value) ==
    IF value.type \in {"null", "array", "object"} THEN "object" ELSE value.type

\* Boolean(value)
Truthy(value) ==
    CASE value.type \in {"undefined", "null"} -> FALSE
      [] value.type = "boolean" -> value.value
      [] value.type = "number" -> value.n # 0
      [] value.type = "string" -> value.chars # <<>>
      [] OTHER -> TRUE

\* the own enumerable entries of a value (Object.entries, object spread):
\* those of an object, the indexed items of an array, the indexed characters
\* of a string, none of any other value
OwnEntries(value) ==
    CASE value.type = "object" -> value.entries
      [] value.type = "array" ->
            [i \in 1..Len(value.items) |->
                [key |-> ToString(i - 1), value |-> value.items[i]]]
      [] value.type = "string" ->
            [i \in 1..Len(value.chars) |->
                [key |-> ToString(i - 1),
                 value |-> JsString(<<value.chars[i]>>)]]
      [] OTHER -> <<>>

\* value[key] for a key that is not a built-in property: a TypeError on null
\* and undefined, undefined where the value has no such entry
Get(value, key) ==
    LET entries == OwnEntries(value)
        hits == {i \in 1..Len(entries) : entries[i].key = key}
    IN  IF value.type \in {"undefined", "null"} THEN TypeError
        ELSE IF hits = {} THEN JsUndefined
        ELSE entries[CHOOSE i \in hits : TRUE].value

\* { ...entries, [key]: value }: the entry replaced in place, or added last
SetEntry(entries, key, value) ==
    IF \E i \in 1..Len(entries) : entries[i].key = key
    THEN [i \in 1..Len(entries) |->
            IF entries[i].key = key THEN [key |-> key, value |-> value]
            ELSE entries[i]]
    ELSE Append(entries, [key |-> key, value |-> value])

\* a value [...value] can spread; any other makes it throw a TypeError
Iterable(value) == value.type \in {"array", "string"}

\* [...value]: the items of an array, the characters of a string
SpreadItems(value) ==
    IF value.type = "array" THEN value.items
    ELSE [i \in 1..Len(value.chars) |-> JsString(<<value.chars[i]>>)]

RECURSIVE trimStart(_)
trimStart(chars) ==
    IF chars # <<>> /\ Head(chars) = " " THEN trimStart(Tail(chars)) ELSE chars

RECURSIVE trimEnd(_)
trimEnd(chars) ==
    IF chars # <<>> /\ chars[Len(chars)] = " "
    THEN trimEnd(SubSeq(chars, 1, Len(chars) - 1))
    ELSE chars

\* String.prototype.trim
trim(chars) == trimEnd(trimStart(chars))

\* the times of the model, in ms since the epoch
Times == 0..MaxTime

\* new Date(ms).toISOString()
toISOString(ms) == <<"1970-01-01T00:00:00.00" \o ToString(ms) \o "Z">>

\* new Date(chars).getTime(), of the dates toISOString writes
getTime(chars) == CHOOSE ms \in Times : toISOString(ms) = chars

\* what storage.getItem resolves to: null for a key never written, or the
\* text written; a text is the JSON of a value (JSON.stringify) or is not
\* JSON at all
NoItem == [text |-> "null"]
EmptyText == [text |-> "empty"]
NotJSON == [text |-> "notJSON"]
JSONstringify(value) == [text |-> "JSON", value |-> value]

\* `if (stored)`: null and the empty string are skipped
ItemPresent(item) == item.text \notin {"null", "empty"}

\* JSON.parse(text), SyntaxError where it throws
JSONparse(item) == IF item.text = "JSON" THEN item.value ELSE SyntaxError

\* the id of a card as text
CardIdText(card) == "card-" \o ToString(card)

\* a journal entry, a history entry
JournalEntry(id, cardId, entry, createdAt) ==
    JsObject(<<[key |-> "id", value |-> JsString(id)],
               [key |-> "cardId", value |-> JsString(cardId)],
               [key |-> "entry", value |-> JsString(entry)],
               [key |-> "createdAt", value |-> JsString(createdAt)]>>)

HistoryEntry(id, title, drawnAt) ==
    JsObject(<<[key |-> "id", value |-> JsString(id)],
               [key |-> "title", value |-> JsString(title)],
               [key |-> "drawnAt", value |-> JsString(drawnAt)]>>)

\* the filter of the array shape: item && typeof item === "object" && the
\* four fields are strings
IsJournalEntry(item) ==
    /\ Truthy(item)
    /\ typeof(item) = "object"
    /\ typeof(Get(item, "id")) = "string"
    /\ typeof(Get(item, "cardId")) = "string"
    /\ typeof(Get(item, "entry")) = "string"
    /\ typeof(Get(item, "createdAt")) = "string"

\* a filter of the legacy shape that keeps every string
LegacyValueIsString(entry) == typeof(entry) = "string"

\* the filter of the legacy shape:
\* typeof entry === "string" && entry.trim().length
LegacyValueKept(entry) ==
    typeof(entry) = "string" /\ Len(trim(entry.chars)) # 0

RECURSIVE SortNewestFirst(_)
\* .sort((a, b) => time(b.createdAt) - time(a.createdAt)): newest first,
\* entries of one time in the order they had (the sort is stable)
SortNewestFirst(items) ==
    IF items = <<>> THEN <<>>
    ELSE LET rest == SortNewestFirst(Tail(items))
             time(e) == getTime(Get(e, "createdAt").chars)
             k == Cardinality({i \in 1..Len(rest) :
                                  time(rest[i]) > time(Head(items))})
         IN  SubSeq(rest, 1, k) \o <<Head(items)>>
                \o SubSeq(rest, k + 1, Len(rest))

\* parseStoredJournals(raw)
parseStoredJournals(raw) ==
    LET parsed == JSONparse(raw)
        kept == SelectSeq(OwnEntries(parsed),
                          LAMBDA e : LegacyValueKept(e.value))
    IN  IF parsed = SyntaxError THEN <<>>
        ELSE IF parsed.type = "array"
        THEN SortNewestFirst(SelectSeq(parsed.items, IsJournalEntry))
        ELSE IF Truthy(parsed) /\ typeof(parsed) = "object"
        THEN SortNewestFirst(
                [i \in 1..Len(kept) |->
                    JournalEntry(
                        <<"legacy-" \o kept[i].key \o "-" \o ToString(i - 1)>>,
                        <<kept[i].key>>,
                        trim(kept[i].value.chars),
                        toISOString(0))])
        ELSE <<>>

\* the three states loadState sets from storage, as useState leaves them
StateAtMount ==
    [favorites |-> JsObject(<<>>), history |-> JsArray(<<>>),
     journalEntries |-> JsArray(<<>>)]

\* loadState, for the favorites, history and journal keys
loadState(stored) ==
    LET parsedOr(item, fallback) ==
            IF JSONparse(item) = SyntaxError THEN fallback ELSE JSONparse(item)
    IN  [favorites |->
            IF ItemPresent(stored.favorites)
            THEN parsedOr(stored.favorites, JsObject(<<>>))
            ELSE StateAtMount.favorites,
         history |->
            IF ItemPresent(stored.history)
            THEN parsedOr(stored.history, JsArray(<<>>))
            ELSE StateAtMount.history,
         journalEntries |->
            IF ItemPresent(stored.journal)
            THEN JsArray(parseStoredJournals(stored.journal))
            ELSE StateAtMount.journalEntries]

\* the harness at rest, as the screen's specifications keep it
ProbeIdle ==
    [op |-> "idle", start |-> [cards |-> <<>>, order |-> <<>>, index |-> 0],
     prev  |-> [cards |-> <<>>, order |-> <<>>, index |-> 0],
     state |-> [cards |-> <<>>, order |-> <<>>, index |-> 0],
     cards |-> <<>>, list |-> <<>>, arg |-> <<>>, ret |-> <<>>,
     progress |-> [n |-> 0, d |-> 1],
     timeline |-> [fanCollapse |-> [n |-> 0, d |-> 1],
                   shuffleShake |-> [n |-> 0, d |-> 1],
                   shuffleSwirl |-> [n |-> 0, d |-> 1],
                   steps |-> <<>>, status |-> "none", done |-> 0,
                   stale |-> <<>>],
     fresh |-> [fanCollapse |-> [n |-> 0, d |-> 1],
                shuffleShake |-> [n |-> 0, d |-> 1],
                shuffleSwirl |-> [n |-> 0, d |-> 1],
                steps |-> <<>>, status |-> "none", done |-> 0,
                stale |-> <<>>],
     stored |-> [favorites |-> NoItem, history |-> NoItem, journal |-> NoItem],
     loaded |-> StateAtMount, outcome |-> StateAtMount, commands |-> 0]

\* a deck state handed to drawNext
ProbeStart(st) ==
    [ProbeIdle EXCEPT !.op = "init", !.start = st, !.prev = st, !.state = st]

\* a card list handed to shuffle
ProbeList(list) == [ProbeIdle EXCEPT !.op = "list", !.list = list, !.arg = list]

\* const r = drawNext(state); state = r.state   (one more call in a row)
ProbeDrawNext ==
    /\ probe.op \in {"init", "drawNext"}
    /\ Len(probe.cards) <= Len(probe.start.cards)
    /\ \E rnd \in RandomDraws(Len(probe.state.cards)) :
          LET r == drawNext(probe.state, rnd)
          IN  probe' = [probe EXCEPT !.op = "drawNext",
                                     !.prev = probe.state,
                                     !.state = r.state,
                                     !.cards = Append(probe.cards, r.card)]
    /\ UNCHANGED appVars

\* const ret = shuffle(list)
ProbeShuffle ==
    /\ probe.op = "list"
    /\ \E rnd \in RandomDraws(Len(probe.list)) :
          LET r == shuffleCall(probe.arg, rnd)
          IN  probe' = [probe EXCEPT !.op = "shuffle",
                                     !.arg = r.cards, !.ret = r.next]
    /\ UNCHANGED appVars

----------------------------------------------------------------------------
(* Claims about the deck engine (checked under SpecDeck) *)

\* the first n cards returned by the calls in a row
Returned(n) == SubSeq(probe.cards, 1, n)

\* C1 (as stated): from any deck state whose order has N >= 1 cards, N calls
\* of drawNext in a row return order[0], ..., order[N-1] in that order, and
\* the (N+1)th call returns order[0] again.
C1_DrawsOrderFromFirst ==
    LET N == Len(probe.start.order)
    IN  (N >= 1 /\ probe.op = "drawNext") =>
           /\ Len(probe.cards) >= N => Returned(N) = probe.start.order
           /\ Len(probe.cards) = N + 1 =>
                 probe.cards[N + 1] = JsAt(probe.start.order, 0)

\* C1 (amended): from a deck state whose order has N >= 1 cards and whose
\* cursor is at c, the k-th call of drawNext in a row returns
\* order[(c + k - 1) mod N]: N calls return every card of order exactly once,
\* in cyclic order from order[c], and the (N+1)th call returns the first
\* returned card again (order[0] when c = 0), with no shuffle in between.
C1_DrawsCycleFromCursor ==
    LET N == Len(probe.start.order)
        c == probe.start.index
    IN  (N >= 1 /\ probe.op = "drawNext") =>
           /\ \A k \in 1..Len(probe.cards) :
                 probe.cards[k] = JsAt(probe.start.order, (c + k - 1) % N)
           /\ Len(probe.cards) >= N =>
                 /\ IsPermutation(Returned(N), probe.start.order)
                 /\ IsDistinct(Returned(N))
           /\ Len(probe.cards) = N + 1 =>
                 /\ probe.cards[N + 1] = probe.cards[1]
                 /\ c = 0 => probe.cards[N + 1] = JsAt(probe.start.order, 0)
           /\ probe.state.order = probe.start.order

C1_Witness ==
    /\ probe.op = "drawNext"
    /\ Len(probe.start.order) = MaxCards
    /\ probe.start.index = 1
    /\ Len(probe.cards) = MaxCards + 1

\* C2: drawNext on a state whose order is populated does not re-shuffle: the
\* returned state has the same cards and the same order, element for
\* element; nothing but the cursor index differs.
C2_DrawKeepsOrder ==
    (probe.op = "drawNext" /\ Len(probe.prev.order) > 0) =>
        /\ probe.state.cards = probe.prev.cards
        /\ probe.state.order = probe.prev.order
        /\ probe.state = [probe.prev EXCEPT !.index = probe.state.index]

C2_Witness ==
    /\ probe.op = "drawNext"
    /\ Len(probe.prev.order) = MaxCards
    /\ probe.prev.order # probe.prev.cards
    /\ probe.state.index # probe.prev.index

\* C3: for a non-empty list, shuffle returns a list of the same length with
\* the same multiset of elements and leaves its argument as it was, for every
\* sequence of values of the random source.
C3_ShufflePermutes ==
    (probe.op = "shuffle" /\ Len(probe.list) >= 1) =>
        /\ Len(probe.ret) = Len(probe.list)
        /\ IsPermutation(probe.ret, probe.list)
        /\ probe.arg = probe.list

C3_Witness ==
    /\ probe.op = "shuffle"
    /\ Len(probe.list) = MaxCards
    /\ probe.ret # probe.list
    /\ ~IsDistinct(probe.list)

\* C4: from a never-shuffled deck (order empty, cursor 0) of N >= 1 cards,
\* the first drawNext leaves an order that is a permutation of the catalog,
\* and N calls in a row return N distinct cards that cover the catalog.
C4_LazyShuffleCoversCatalog ==
    LET N == Len(probe.start.cards)
    IN  (probe.start.order = <<>> /\ N >= 1 /\ probe.op = "drawNext") =>
           /\ IsPermutation(probe.state.order, probe.start.cards)
           /\ probe.cards[1] \in Range(probe.start.cards)
           /\ Len(probe.cards) >= N =>
                 /\ IsDistinct(Returned(N))
                 /\ Range(Returned(N)) = Range(probe.start.cards)

C4_Witness ==
    /\ probe.op = "drawNext"
    /\ probe.start.order = <<>>
    /\ Len(probe.start.cards) = MaxCards
    /\ Len(probe.cards) = MaxCards
    /\ probe.state.order # probe.start.cards

\* C5: with an empty catalog (cards and order empty) drawNext returns the
\* state it was given, unchanged, together with a fallback card.
C5_EmptyCatalogFallback ==
    (probe.op = "drawNext" /\ probe.prev.cards = <<>>
                           /\ probe.prev.order = <<>>) =>
        /\ probe.state = probe.prev
        /\ probe.cards[Len(probe.cards)] \in CardIds

----------------------------------------------------------------------------
(* The Index screen: src/app/index.tsx *)

\* Progress values are explored on the grid k / ProgressResolution
ProgressResolution == 10

Slots == 0..(FanSlotCount - 1)

\* recordHistory keeps the newest 200 entries: .slice(0, 200)
HistoryLimit == 200

Min(a, b) == IF a < b THEN a ELSE b

\* lengths of the history found in storage at mount
StoredLengths == (HistoryLimit - StoredBelowCap)..HistoryLimit

\* An Animated.Value with the animation that drives it.  toValue is null when
\* no animation is in flight; onEnd names the callback handed to start().
\* React Native runs that callback when the animation ends and also, with
\* {finished: false}, when the animation is stopped: by setValue on the value
\* or by another animation started on it.
AnimValueSet(v) == [value |-> v, toValue |-> null, onEnd |-> "none"]

AnimTimingStart(anim, toValue, onEnd) ==
    [value |-> anim.value, toValue |-> toValue, onEnd |-> onEnd]

\* the 1 -> 0 animation of handleConfirmSelection(false) is in flight
CancelPending == selectionAnim.toValue # null /\ selectionAnim.onEnd = "cancel"

\* the state the three selection setters leave
Selection(slot, slots, open) ==
    /\ selectedSlot' = slot
    /\ selectedSlots' = slots
    /\ isConfirmOpen' = open

\* a cancel callback that leaves the selected slots in place
cancelCallbackKeepsSlots == Selection(selectedSlot, selectedSlots, FALSE)

\* the callback handleConfirmSelection(false) hands to start()
cancelCallback == Selection(null, <<>>, FALSE)

\* the handler's own writes, followed by a stop of the animation in flight:
\* the callback of a stopped cancel animation runs last and its writes win
SelectionThenStop(slot, slots, open) ==
    IF CancelPending
    THEN cancelCallback
    ELSE Selection(slot, slots, open)

\* next.length === 3, taken at two slots
IsFullTripleAtTwo(next) == Len(next) >= 2

\* next.length === 3: the tap completed the three-card selection
IsFullTriple(next) == Len(next) = 3

\* recordHistory without .slice(0, 200)
recordHistoryUncapped(prev, card) == <<card>> \o prev

\* [entry(card), ...prev].slice(0, 200)
recordHistory(prev, card) ==
    SubSeq(<<card>> \o prev, 1, Min(HistoryLimit, Len(prev) + 1))

\* the empty string resetApp writes under the last-card key
NoCardId == -2

\* nothing stored (first launch), nothing for loadState to apply
StorageEmpty ==
    [history |-> <<>>, lastCard |-> null, pending |-> FALSE, read |-> <<>>,
     favorites |-> NoItem, journal |-> NoItem,
     readFavorites |-> NoItem, readJournal |-> NoItem,
     audioEnabled |-> NoItem, readAudioEnabled |-> NoItem]

\* storage.setItem(HISTORY_KEY, JSON.stringify(next))
StoreHistory(store, next) == [store EXCEPT !.history = next]

\* persistLastCard: storage.setItem(LAST_CARD_KEY, card.id)
persistLastCard(store, card) == [store EXCEPT !.lastCard = card]

\* recordHistory(card) at time now: the updater of setHistory
recordHistoryStored(state, card, now) ==
    LET prev == SpreadItems(state.history)
        entry == HistoryEntry(<<CardIdText(card)>>, <<"title">>,
                              toISOString(now))
    IN  IF ~Iterable(state.history) THEN TypeError
        ELSE [state EXCEPT !.history =
                 JsArray(SubSeq(<<entry>> \o prev, 1,
                                Min(HistoryLimit, Len(prev) + 1)))]

\* toggleFavorite() with the card current: the updater of setFavorites
toggleFavorite(state, card) ==
    LET prev == state.favorites
        was == Get(prev, CardIdText(card))
    IN  IF was = TypeError THEN TypeError
        ELSE [state EXCEPT !.favorites =
                 JsObject(SetEntry(OwnEntries(prev), CardIdText(card),
                                   JsBoolean(~Truthy(was))))]

\* saveJournal() with the card current and journalDraft = draft, at time
\* now; rnd is the random part of createJournalEntryId
saveJournal(state, card, draft, now, rnd) ==
    LET trimmed == trim(draft)
        prev == SpreadItems(state.journalEntries)
        entry == JournalEntry(
                    <<"journal-" \o ToString(now) \o "-" \o ToString(rnd)>>,
                    <<CardIdText(card)>>, trimmed, toISOString(now))
    IN  IF trimmed = <<>> THEN state
        ELSE IF ~Iterable(state.journalEntries) THEN TypeError
        ELSE [state EXCEPT !.journalEntries = JsArray(<<entry>> \o prev)]

----------------------------------------------------------------------------
(* The card view: the flip state of the current card (index.tsx:1621-1623,
   1648, 1659-1680) and the CardFlip component that shows it
   (src/src/components/CardFlip.tsx:356-607).

   cardView is a record of
     isFront, flipPair, isDetailMode, autoFlipNext   the useState values
     isCardTransitioning         isCardTransitioningRef.current
     isCardInteractionLocked     the useState value CardFlip is disabled with
     cardInteractionLockTimeout  duration of the pending lock timeout, 0: none
     detailFlip                  the flip to the detail side: "none",
                                 "afterInteractions" (the callback handed to
                                 InteractionManager is waiting), "timeout"
                                 (detailFlipTimeoutRef holds a timeout)
     detailContentSwap           card of the pending content-swap timeout
     press                       handleRevealPress of the mounted CardFlip:
                                 "none", "lift" (before onBeforeFlip),
                                 "settle" (after it, isRevealing still true);
                                 young: the lift began while the auto-flip
                                 timeout now pending was pending, so that it
                                 ends (after 200 ms) when that timeout (of
                                 140 ms) has fired
     orphans                     closures of the handleRevealPress runs still
                                 lifting in CardFlip instances since unmounted
   Timeouts are pending or not; the order in which two pending timeouts fire
   is left open except where their durations fix it. *)

\* Platform.OS
Platforms == {"web", "ios", "android"}

CARD_FLIP_DURATION_MS == 380
\* the lift of handleRevealPress: timings of 180, 180 and 200 ms in parallel
LIFT_DURATION_MS == 200
\* the delay of the auto-flip timeout: setTimeout(..., 140)
AUTO_FLIP_DELAY_MS == 140
DETAIL_CONTENT_SWAP_MS == 420

\* the React nodes shown on the two faces, by name and card
NoNode == [node |-> "null", card |-> null]
backNode == [node |-> "backNode", card |-> null]

\* Boolean(card.detailImage): every card of the deck has a detail image
hasDetailImage(card) == card \in CardIds

frontNode(card) ==
    IF card = null THEN NoNode ELSE [node |-> "frontNode", card |-> card]

detailBgNode(card) ==
    IF card = null \/ ~hasDetailImage(card) THEN NoNode
    ELSE [node |-> "detailBgNode", card |-> card]

detailFullNode(card) ==
    IF card = null \/ ~hasDetailImage(card) THEN NoNode
    ELSE [node |-> "detailFullNode", card |-> card]

\* flipPair === null
NoFlipPair == [back |-> NoNode, front |-> NoNode]

NoPress == [phase |-> "none", closure |-> <<>>, young |-> FALSE]

\* the card view after construction
CardViewAtRest ==
    [isFront |-> FALSE, flipPair |-> NoFlipPair, isDetailMode |-> FALSE,
     autoFlipNext |-> FALSE, isCardTransitioning |-> FALSE,
     isCardInteractionLocked |-> FALSE, cardInteractionLockTimeout |-> 0,
     detailFlip |-> "none", detailContentSwap |-> null,
     press |-> NoPress, orphans |-> {}]

\* clearCardInteractionLock
clearCardInteractionLock(cv) ==
    [cv EXCEPT !.cardInteractionLockTimeout = 0,
               !.isCardTransitioning = FALSE,
               !.isCardInteractionLocked = FALSE]

\* lockCardInteraction(durationMs)
lockCardInteraction(cv, durationMs) ==
    [cv EXCEPT !.cardInteractionLockTimeout = durationMs,
               !.isCardTransitioning = TRUE,
               !.isCardInteractionLocked = TRUE]

\* if (detailFlipTimeoutRef.current) clearTimeout(...), and the same for
\* detailContentSwapTimeoutRef: a callback still waiting for the end of the
\* interactions holds no timeout yet and is not cleared
clearDetailTimeouts(cv) ==
    [cv EXCEPT !.detailFlip = IF @ = "timeout" THEN "none" ELSE @,
               !.detailContentSwap = null]

\* the effect on [backNode, clearCardInteractionLock, currentCard, frontNode]
currentCardEffect(cv, card) ==
    IF card = null
    THEN [clearCardInteractionLock(cv) EXCEPT !.flipPair = NoFlipPair,
                                              !.isFront = FALSE,
                                              !.isDetailMode = FALSE]
    ELSE [clearCardInteractionLock(cv)
              EXCEPT !.flipPair = IF frontNode(card) # NoNode
                                  THEN [back |-> backNode,
                                        front |-> frontNode(card)]
                                  ELSE @,
                     !.isFront = FALSE,
                     !.isDetailMode = FALSE]

\* key of the CardFlip element: card id, detail or front, hasFront or noFront
CardFlipKey(card, cv) ==
    <<card, cv.isDetailMode, cv.flipPair.front # NoNode>>

\* CardFlip follows the render: when there is no card any more or the key has
\* changed, the instance is unmounted; a handleRevealPress still lifting in
\* it goes on and will call the onBeforeFlip it was created with
CardFlipRendered(card, cv, nextCard, next) ==
    IF nextCard # null /\ CardFlipKey(nextCard, next) = CardFlipKey(card, cv)
    THEN next
    ELSE [next EXCEPT !.press = NoPress,
                      !.orphans = IF cv.press.phase = "lift"
                                  THEN @ \cup {cv.press.closure} ELSE @]

\* what a handler leaves is rendered: the currentCard effect runs when the
\* card has changed, and CardFlip is rendered with the outcome
Commit(card, cv, nextCard, next) ==
    CardFlipRendered(card, cv, nextCard,
        IF nextCard # card THEN currentCardEffect(next, nextCard) ELSE next)

\* the values handleCardTap closes over
Closure(card, cv) ==
    [currentCard |-> card, hasFlipPair |-> cv.flipPair # NoFlipPair,
     isFront |-> cv.isFront, isDetailMode |-> cv.isDetailMode]

\* a detailFlipFront that is still the face of the card
detailFlipFrontCardFace(os, card) == frontNode(card)

\* const detailFlipFront = Platform.OS === "ios" ? detailBgNode : detailFullNode
detailFlipFront(os, card) ==
    IF os = "ios" THEN detailBgNode(card) ELSE detailFullNode(card)

\* handleCardTap past its two early returns: c is the closure, cv the state
\* the setters act on
handleCardTapFlip(os, cv, c) ==
    IF /\ hasDetailImage(c.currentCard)
       /\ ~c.isDetailMode
       /\ c.isFront
       /\ frontNode(c.currentCard) # NoNode
       /\ detailBgNode(c.currentCard) # NoNode
       /\ detailFullNode(c.currentCard) # NoNode
    THEN [lockCardInteraction(clearDetailTimeouts(cv),
                              CARD_FLIP_DURATION_MS + 220)
              EXCEPT !.isFront = FALSE,
                     !.flipPair = [back |-> frontNode(c.currentCard),
                                   front |-> detailFlipFront(os, c.currentCard)],
                     !.isDetailMode = TRUE,
                     !.detailFlip = IF os = "web" THEN "timeout"
                                    ELSE "afterInteractions",
                     !.detailContentSwap =
                         IF os # "web" /\ os # "ios" THEN c.currentCard
                         ELSE null]
    ELSE [lockCardInteraction(cv, CARD_FLIP_DURATION_MS + 80)
              EXCEPT !.isFront = ~@]

\* handleCardTap without the isCardTransitioningRef test
handleCardTapUnlocked(os, cv, c) ==
    IF c.currentCard = null \/ ~c.hasFlipPair THEN cv
    ELSE handleCardTapFlip(os, cv, c)

\* handleCardTap
handleCardTap(os, cv, c) ==
    IF cv.isCardTransitioning THEN cv
    ELSE IF c.currentCard = null \/ ~c.hasFlipPair THEN cv
    ELSE handleCardTapFlip(os, cv, c)

\* the timeout of the auto-flip effect
autoFlipTimeout(cv) == [cv EXCEPT !.isFront = TRUE, !.autoFlipNext = FALSE]

\* the timeout of lockCardInteraction
cardInteractionLockTimeout(cv) ==
    [cv EXCEPT !.isCardTransitioning = FALSE,
               !.isCardInteractionLocked = FALSE,
               !.cardInteractionLockTimeout = 0]

\* the timeout held by detailFlipTimeoutRef
detailFlipTimeout(cv) == [cv EXCEPT !.isFront = TRUE, !.detailFlip = "none"]

\* the timeout held by detailContentSwapTimeoutRef, scheduled for the card
\* cv.detailContentSwap; card is currentCardIdRef.current
detailContentSwapTimeout(cv, card) ==
    IF card # cv.detailContentSwap \/ ~cv.isDetailMode
    THEN [cv EXCEPT !.detailContentSwap = null]
    ELSE [cv EXCEPT !.flipPair =
                        [back |-> frontNode(cv.detailContentSwap),
                         front |-> detailFullNode(cv.detailContentSwap)],
                    !.detailContentSwap = null]

RECURSIVE RecordEach(_, _, _)
\* drawnCards.forEach((card) => recordHistory(card))
RecordEach(prev, drawnCards, i) ==
    IF i > Len(drawnCards) THEN prev
    ELSE RecordEach(recordHistory(prev, drawnCards[i]), drawnCards, i + 1)

\* drawNextCard(autoFlip): one drawNext on the deck, the card becomes the
\* current card (the only call passes true)
drawNextCard ==
    \E rnd \in RandomDrawsOf(deckState) :
        LET result == drawNext(deckState, rnd)
            autoFlip == TRUE
        IN  /\ deckState' = result.state
            /\ cardView' = Commit(currentCard, cardView, result.card,
                                  [cardView EXCEPT !.autoFlipNext = autoFlip,
                                                   !.isFront = ~autoFlip])
            /\ currentCard' = result.card
            /\ history' = recordHistory(history, result.card)
            /\ storage' = persistLastCard(
                              StoreHistory(storage, history'), result.card)
            /\ lastDrawn' = <<result.card>>
            /\ UNCHANGED <<tripleCards, activeTripleCardIndex>>

\* a loop that calls drawNext on the state it started with every time
DrawLoopOnFirstState(nextState, drawnCards, i, rnd) ==
    LET result == drawNext(nextState, rnd)
    IN  [state |-> result.state,
         drawnCards |-> <<result.card, result.card, result.card>>]

RECURSIVE DrawLoop(_, _, _, _)
\* for (let i = 0; i < 3; i += 1) { drawNext(nextState) ... }
\* (only the first call can shuffle a non-empty catalog, so one sequence of
\* random values serves the loop)
DrawLoop(nextState, drawnCards, i, rnd) ==
    IF i < 3
    THEN LET result == drawNext(nextState, rnd)
         IN  DrawLoop(result.state, Append(drawnCards, result.card), i + 1, rnd)
    ELSE [state |-> nextState, drawnCards |-> drawnCards]

\* drawTripleCards(autoFlip): three drawNext in a row, the first card becomes
\* current (the only call passes true)
drawTripleCards ==
    \E rnd \in RandomDrawsOf(deckState) :
        LET loop == DrawLoop(deckState, <<>>, 0, rnd)
            first == JsAt(loop.drawnCards, 0)
            autoFlip == TRUE
        IN  /\ deckState' = loop.state
            /\ cardView' = Commit(currentCard, cardView,
                                  IF first = undefined THEN null ELSE first,
                                  [cardView EXCEPT !.autoFlipNext = autoFlip,
                                                   !.isFront = ~autoFlip])
            /\ tripleCards' = loop.drawnCards
            /\ activeTripleCardIndex' = 0
            /\ currentCard' = IF first = undefined THEN null ELSE first
            /\ history' = RecordEach(history, loop.drawnCards, 1)
            /\ storage' = IF first # undefined
                           THEN persistLastCard(
                                    StoreHistory(storage, history'), first)
                           ELSE StoreHistory(storage, history')
            /\ lastDrawn' = loop.drawnCards

\* handleConfirmSelection without setIsConfirmOpen(false) on confirmation
handleConfirmSelectionKeepsOpen(confirmed) ==
    IF confirmed
    THEN /\ selectionAnim' = AnimValueSet(0)
         /\ Selection(null, <<>>, isConfirmOpen)
         /\ IF drawMode = "triple" THEN drawTripleCards ELSE drawNextCard
    ELSE /\ selectionAnim' = AnimTimingStart(selectionAnim, 0, "cancel")
         /\ SelectionThenStop(selectedSlot, selectedSlots, isConfirmOpen)
         /\ UNCHANGED <<deckState, currentCard, history, tripleCards,
                        activeTripleCardIndex, storage, cardView>>
         /\ lastDrawn' = <<>>

\* handleConfirmSelection without selectionAnim.setValue(0) on confirmation
handleConfirmSelectionNoReset(confirmed) ==
    IF confirmed
    THEN /\ UNCHANGED selectionAnim
         /\ Selection(null, <<>>, FALSE)
         /\ IF drawMode = "triple" THEN drawTripleCards ELSE drawNextCard
    ELSE /\ selectionAnim' = AnimTimingStart(selectionAnim, 0, "cancel")
         /\ SelectionThenStop(selectedSlot, selectedSlots, isConfirmOpen)
         /\ UNCHANGED <<deckState, currentCard, history, tripleCards,
                        activeTripleCardIndex, storage, cardView>>
         /\ lastDrawn' = <<>>

\* a handler that draws whether the selection was confirmed or cancelled
handleConfirmSelectionAlwaysDraws(confirmed) ==
    /\ selectionAnim' = AnimValueSet(0)
    /\ Selection(null, <<>>, FALSE)
    /\ IF drawMode = "triple" THEN drawTripleCards ELSE drawNextCard

\* handleConfirmSelection(confirmed)
handleConfirmSelection(confirmed) ==
    IF confirmed
    THEN /\ selectionAnim' = AnimValueSet(0)
         /\ Selection(null, <<>>, FALSE)
         /\ IF drawMode = "triple" THEN drawTripleCards ELSE drawNextCard
    ELSE /\ selectionAnim' = AnimTimingStart(selectionAnim, 0, "cancel")
         /\ SelectionThenStop(selectedSlot, selectedSlots, isConfirmOpen)
         /\ UNCHANGED <<deckState, currentCard, history, tripleCards,
                        activeTripleCardIndex, storage, cardView>>
         /\ lastDrawn' = <<>>

\* a filter that also drops the slots selected after slotIndex
WithoutSlotAndLater(slots, slotIndex) ==
    LET at == {i \in 1..Len(slots) : slots[i] = slotIndex}
    IN  IF at = {} THEN slots
        ELSE SubSeq(slots, 1, (CHOOSE i \in at : \A j \in at : i <= j) - 1)

\* selectedSlots.filter((slot) => slot !== slotIndex)
WithoutSlot(slots, slotIndex) == SelectSeq(slots, LAMBDA slot : slot # slotIndex)

\* handleSelectFromFan(slotIndex)
handleSelectFromFan(slotIndex) ==
    LET alreadySelected == slotIndex \in Range(selectedSlots)
        idle == /\ UNCHANGED <<deckState, currentCard, history, tripleCards,
                               activeTripleCardIndex, storage, cardView>>
                /\ lastDrawn' = <<>>
    IN
    IF isShuffling
    THEN idle /\ UNCHANGED <<selectedSlot, selectedSlots, isConfirmOpen,
                             selectionAnim>>
    ELSE IF drawMode = "triple"
    THEN IF isConfirmOpen /\ alreadySelected /\ Len(selectedSlots) = 3
         THEN handleConfirmSelection(TRUE)
         ELSE IF alreadySelected
         THEN LET next == WithoutSlot(selectedSlots, slotIndex)
              IN  IF Len(next) < 3
                  THEN /\ idle
                       /\ SelectionThenStop(selectedSlot, next, FALSE)
                       /\ selectionAnim' = AnimValueSet(0)
                  ELSE /\ idle
                       /\ Selection(selectedSlot, next, isConfirmOpen)
                       /\ UNCHANGED selectionAnim
         ELSE IF Len(selectedSlots) >= 3
         THEN idle /\ UNCHANGED <<selectedSlot, selectedSlots, isConfirmOpen,
                                  selectionAnim>>
         ELSE LET next == Append(selectedSlots, slotIndex)
              IN  IF IsFullTriple(next)
                  THEN /\ idle
                       /\ SelectionThenStop(selectedSlot, next, TRUE)
                       /\ selectionAnim' =
                             AnimTimingStart(selectionAnim, AnimFrames, "none")
                  ELSE /\ idle
                       /\ Selection(selectedSlot, next, isConfirmOpen)
                       /\ UNCHANGED selectionAnim
    ELSE IF isConfirmOpen /\ selectedSlot = slotIndex
    THEN handleConfirmSelection(TRUE)
    ELSE /\ idle
         /\ SelectionThenStop(slotIndex, selectedSlots, TRUE)
         /\ selectionAnim' = AnimTimingStart(selectionAnim, AnimFrames, "none")

\* const canSwitchDrawMode = ...
canSwitchDrawMode ==
    /\ currentCard = null
    /\ selectedSlot = null
    /\ Len(selectedSlots) = 0
    /\ ~isConfirmOpen
    /\ ~isShuffling

\* toggleDrawMode without the canSwitchDrawMode test
toggleDrawModeUnguarded ==
    /\ selectionAnim' = AnimValueSet(0)
    /\ Selection(null, <<>>, FALSE)
    /\ tripleCards' = <<>>
    /\ activeTripleCardIndex' = 0
    /\ drawMode' = IF drawMode = "single" THEN "triple" ELSE "single"

\* toggleDrawMode
toggleDrawMode ==
    IF ~canSwitchDrawMode
    THEN UNCHANGED <<selectionAnim, selectedSlot, selectedSlots, isConfirmOpen,
                     tripleCards, activeTripleCardIndex, drawMode>>
    ELSE /\ selectionAnim' = AnimValueSet(0)
         /\ Selection(null, <<>>, FALSE)
         /\ tripleCards' = <<>>
         /\ activeTripleCardIndex' = 0
         /\ drawMode' = IF drawMode = "single" THEN "triple" ELSE "single"

----------------------------------------------------------------------------
(* The shuffle timeline: startShuffle, src/app/index.tsx:2282-2470 *)

\* SHUFFLE_TIMING, in milliseconds
COLLAPSE_DURATION == 550
HOLD_BEFORE_SHAKE == 40
SHAKE_DURATION == 1
HOLD_AFTER_SHAKE == 40
SWIRL_DURATION == 800
SWIRL_RESET_DURATION == 1
EXPAND_DURATION == 550
SHUFFLE_SHAKE_STEPS == 6

SHUFFLE_TOTAL_DURATION ==
    COLLAPSE_DURATION + HOLD_BEFORE_SHAKE + SHAKE_DURATION + HOLD_AFTER_SHAKE
    + SWIRL_DURATION + SWIRL_RESET_DURATION + SWIRL_DURATION
    + SWIRL_RESET_DURATION + EXPAND_DURATION

RECURSIVE GCD(_, _)
GCD(a, b) == IF b = 0 THEN a ELSE GCD(b, a % b)

\* the number n / d (d > 0, n >= 0), in lowest terms
Ratio(n, d) == LET g == GCD(n, d) IN [n |-> n \div g, d |-> d \div g]

Zero == Ratio(0, 1)
One == Ratio(1, 1)

\* SHUFFLE_START_PROGRESS_ON_OPEN = 0.4
SHUFFLE_START_PROGRESS_ON_OPEN == [n |-> 4, d |-> 10]

Max(a, b) == IF a > b THEN a ELSE b

\* Animated.timing(value, {toValue, duration})
Timing(value, toValue, duration) ==
    [value |-> value, toValue |-> toValue, duration |-> duration]

\* Animated.delay(duration): a timing on a value of its own
Delay(duration) == Timing("delay", One, duration)

RECURSIVE Repeat(_, _)
\* Array.from({ length: n }).flatMap(() => pair)
Repeat(pair, n) == IF n = 0 THEN <<>> ELSE pair \o Repeat(pair, n - 1)

\* shakeSteps: SHUFFLE_SHAKE_STEPS times a timing to 1 and a timing to 0,
\* each of stepDuration = SHAKE_DURATION / (SHUFFLE_SHAKE_STEPS * 2)
shakeSteps ==
    LET stepDuration == Ratio(SHAKE_DURATION, SHUFFLE_SHAKE_STEPS * 2)
    IN  Repeat(<<Timing("shuffleShake", One, stepDuration),
                 Timing("shuffleShake", Zero, stepDuration)>>,
               SHUFFLE_SHAKE_STEPS)

\* Animated.sequence(steps) as a step of a sequence: it ends when its last
\* step has ended, and leaves the value where that step takes it
Sequence(steps) ==
    [value |-> steps[Len(steps)].value, toValue |-> steps[Len(steps)].toValue,
     steps |-> steps]

\* the timeline of the revision that cannot resume
\* (src/src/decks/defaultDeck.ts:698-770): every phase value set to 0, then
\* the whole sequence
startShuffleFresh ==
    [fanCollapse |-> Zero, shuffleShake |-> Zero, shuffleSwirl |-> Zero,
     steps |->
        <<Timing("fanCollapse", One, Ratio(COLLAPSE_DURATION, 1)),
          Delay(Ratio(HOLD_BEFORE_SHAKE, 1)),
          Sequence(shakeSteps),
          Delay(Ratio(HOLD_AFTER_SHAKE, 1)),
          Timing("shuffleSwirl", One, Ratio(SWIRL_DURATION, 1)),
          Timing("shuffleSwirl", Zero, Ratio(SWIRL_RESET_DURATION, 1)),
          Timing("shuffleSwirl", One, Ratio(SWIRL_DURATION, 1)),
          Timing("shuffleSwirl", Zero, Ratio(SWIRL_RESET_DURATION, 1)),
          Timing("fanCollapse", Zero, Ratio(EXPAND_DURATION, 1))>>]

\* a test that queues the shake steps whatever has elapsed
ShakePendingAlways(shakeElapsed, d) == TRUE

\* if (shakeElapsed < SHUFFLE_TIMING.SHAKE_DURATION)
ShakePending(shakeElapsed, d) == shakeElapsed < SHAKE_DURATION * d

\* What startShuffle(initialProgress) sets the three phase values to and the
\* steps it hands to Animated.sequence.  initialProgress is the number n / d;
\* times are counted in units of 1 / d ms, so that they stay integers (the
\* source computes them in floating point).
ShuffleTimeline(initialProgress) ==
    LET d == initialProgress.d
        \* const progress = Math.min(Math.max(initialProgress, 0), 1)
        progress == Min(Max(initialProgress.n, 0), d)
        U(duration) == duration * d
        elapsed0 == SHUFFLE_TOTAL_DURATION * progress
        \* consumeElapsed(duration), given what is left of elapsed
        consumed(elapsed, duration) == Min(elapsed, U(duration))
        collapseElapsed == consumed(elapsed0, COLLAPSE_DURATION)
        elapsed1 == elapsed0 - collapseElapsed
        holdBeforeShakeElapsed == consumed(elapsed1, HOLD_BEFORE_SHAKE)
        elapsed2 == elapsed1 - holdBeforeShakeElapsed
        shakeElapsed == consumed(elapsed2, SHAKE_DURATION)
        elapsed3 == elapsed2 - shakeElapsed
        holdAfterShakeElapsed == consumed(elapsed3, HOLD_AFTER_SHAKE)
        elapsed4 == elapsed3 - holdAfterShakeElapsed
        swirlOneElapsed == consumed(elapsed4, SWIRL_DURATION)
        elapsed5 == elapsed4 - swirlOneElapsed
        swirlResetOneElapsed == consumed(elapsed5, SWIRL_RESET_DURATION)
        elapsed6 == elapsed5 - swirlResetOneElapsed
        swirlTwoElapsed == consumed(elapsed6, SWIRL_DURATION)
        elapsed7 == elapsed6 - swirlTwoElapsed
        swirlResetTwoElapsed == consumed(elapsed7, SWIRL_RESET_DURATION)
        elapsed8 == elapsed7 - swirlResetTwoElapsed
        expandElapsed == consumed(elapsed8, EXPAND_DURATION)
        \* fanCollapse.setValue(...)
        collapse ==
            IF collapseElapsed < U(COLLAPSE_DURATION)
            THEN Ratio(collapseElapsed, U(COLLAPSE_DURATION))
            ELSE IF expandElapsed > 0
            THEN Ratio(U(EXPAND_DURATION) - expandElapsed, U(EXPAND_DURATION))
            ELSE IF progress >= d THEN Zero
            ELSE One
        \* shuffleSwirl.setValue(...)
        swirl ==
            IF swirlOneElapsed < U(SWIRL_DURATION)
            THEN Ratio(swirlOneElapsed, U(SWIRL_DURATION))
            ELSE IF swirlResetOneElapsed > 0
            THEN Ratio(U(SWIRL_RESET_DURATION) - swirlResetOneElapsed,
                       U(SWIRL_RESET_DURATION))
            ELSE IF swirlTwoElapsed < U(SWIRL_DURATION)
            THEN Ratio(swirlTwoElapsed, U(SWIRL_DURATION))
            ELSE IF swirlResetTwoElapsed > 0
            THEN Ratio(U(SWIRL_RESET_DURATION) - swirlResetTwoElapsed,
                       U(SWIRL_RESET_DURATION))
            ELSE Zero
        \* if (remaining > 0) animationSteps.push(step)
        push(remaining, value, toValue) ==
            IF remaining > 0
            THEN <<Timing(value, toValue, Ratio(remaining, d))>>
            ELSE <<>>
    IN  [fanCollapse |-> collapse,
         shuffleShake |-> Zero,
         shuffleSwirl |-> swirl,
         steps |->
            push(U(COLLAPSE_DURATION) - collapseElapsed, "fanCollapse", One)
            \o push(U(HOLD_BEFORE_SHAKE) - holdBeforeShakeElapsed, "delay", One)
            \o (IF ShakePending(shakeElapsed, d)
                THEN <<Sequence(shakeSteps)>> ELSE <<>>)
            \o push(U(HOLD_AFTER_SHAKE) - holdAfterShakeElapsed, "delay", One)
            \o push(U(SWIRL_DURATION) - swirlOneElapsed, "shuffleSwirl", One)
            \o push(U(SWIRL_RESET_DURATION) - swirlResetOneElapsed,
                    "shuffleSwirl", Zero)
            \o push(U(SWIRL_DURATION) - swirlTwoElapsed, "shuffleSwirl", One)
            \o push(U(SWIRL_RESET_DURATION) - swirlResetTwoElapsed,
                    "shuffleSwirl", Zero)
            \o push(U(EXPAND_DURATION) - expandElapsed, "fanCollapse", Zero)]

\* The three phase values and the run shuffleAnimRef refers to.  status is
\* "running" while a step of the sequence is in flight (the head of steps),
\* "finished" once the last step has ended, "stopped" once it was stopped;
\* done counts the calls of the completion handler by this run; stale holds
\* the steps left of earlier runs that are still running.
NoTimeline ==
    [fanCollapse |-> Zero, shuffleShake |-> Zero, shuffleSwirl |-> Zero,
     steps |-> <<>>, status |-> "none", done |-> 0, stale |-> <<>>]

\* handleShuffleDone's writes to the phase values: the three setValue(0)
PhasesAtRest(t) ==
    [t EXCEPT !.fanCollapse = Zero, !.shuffleShake = Zero, !.shuffleSwirl = Zero]

\* a start callback that does not test `finished`
startCallbackAlways(t, finished) == PhasesAtRest([t EXCEPT !.done = t.done + 1])

\* ({ finished }) => { if (finished) { handleShuffleDone(); } }
startCallback(t, finished) ==
    IF finished THEN PhasesAtRest([t EXCEPT !.done = t.done + 1]) ELSE t

\* the phase values set and Animated.sequence(animationSteps).start(callback):
\* a sequence without steps calls back at once, finished
TimelineStart(plan) ==
    LET t == [fanCollapse |-> plan.fanCollapse,
              shuffleShake |-> plan.shuffleShake,
              shuffleSwirl |-> plan.shuffleSwirl,
              steps |-> plan.steps, status |-> "running", done |-> 0,
              stale |-> <<>>]
    IN  IF plan.steps = <<>>
        THEN startCallback([t EXCEPT !.status = "finished"], TRUE)
        ELSE t

\* the step in flight ends: its value is at toValue, and the sequence starts
\* the next step or, after the last one, calls back, finished
TimelineStepEnds(t) ==
    LET step == Head(t.steps)
        moved == IF step.value = "delay" THEN t
                 ELSE [t EXCEPT ![step.value] = step.toValue]
        rest == [moved EXCEPT !.steps = Tail(t.steps)]
    IN  IF rest.steps = <<>>
        THEN startCallback([rest EXCEPT !.status = "finished"], TRUE)
        ELSE rest

\* animation.stop(): the step in flight is stopped where it is and the
\* sequence calls back, not finished; stopping a sequence that is not running
\* does nothing
TimelineStop(t) ==
    IF t.status = "running"
    THEN startCallback([t EXCEPT !.status = "stopped"], FALSE)
    ELSE t

\* the steps of the runs that a setValue on each of the three phase values
\* leaves running: setValue stops the animation on its value, which ends the
\* sequence it is a step of, and does not reach a delay in flight
RunsLeftRunning(t) ==
    SelectSeq(t.stale \o (IF t.status = "running" THEN <<t.steps>> ELSE <<>>),
              LAMBDA steps : Head(steps).value = "delay")

\* a commit that clears the card and the selection and leaves the deck as
\* it is
shuffleDeckKeepingOrder ==
    /\ deckState' = deckState
    /\ currentCard' = null
    /\ cardView' = Commit(currentCard, cardView, null,
                          [cardView EXCEPT !.isFront = FALSE])
    /\ Selection(null, <<>>, FALSE)
    /\ tripleCards' = <<>>
    /\ activeTripleCardIndex' = 0
    /\ selectionAnim' = AnimValueSet(0)

\* shuffleDeck: a fresh order, cursor 0, no card, no selection
shuffleDeck ==
    /\ \E rnd \in RandomDraws(Len(deckState.cards)) :
          deckState' = [deckState EXCEPT !.order = shuffle(deckState.cards, rnd),
                                         !.index = 0]
    /\ currentCard' = null
    /\ cardView' = Commit(currentCard, cardView, null,
                          [cardView EXCEPT !.isFront = FALSE])
    /\ Selection(null, <<>>, FALSE)
    /\ tripleCards' = <<>>
    /\ activeTripleCardIndex' = 0
    /\ selectionAnim' = AnimValueSet(0)

\* handleShuffleDone: commit the re-shuffle and end the shuffle (its stop()
\* of the run that has just finished does nothing, its three setValue(0)
\* are PhasesAtRest)
handleShuffleDone ==
    /\ shuffleDeck
    /\ isShuffling' = FALSE

\* startShuffle(initialProgress) with t the timeline it finds:
\* setIsShuffling(true), the phase values set, and a new run started.  (The
\* screen calls it with 0 and with SHUFFLE_START_PROGRESS_ON_OPEN, which
\* both queue steps.)
startShuffle(t, initialProgress) ==
    /\ isShuffling' = TRUE
    /\ shuffleAnim' = [TimelineStart(ShuffleTimeline(initialProgress))
                           EXCEPT !.stale = RunsLeftRunning(t)]

\* what handleShufflePress does to the card view
shufflePressCardView(cv) ==
    [clearCardInteractionLock(clearDetailTimeouts(cv))
         EXCEPT !.flipPair = NoFlipPair, !.isFront = FALSE,
                !.isDetailMode = FALSE]

\* handleShufflePress without the isShuffling test
handleShufflePressUnguarded ==
    /\ currentCard' = null
    /\ cardView' = Commit(currentCard, cardView, null,
                          shufflePressCardView(cardView))
    /\ startShuffle(shuffleAnim, Zero)

\* handleShufflePress
handleShufflePress ==
    IF isShuffling
    THEN UNCHANGED <<currentCard, cardView, isShuffling, shuffleAnim>>
    ELSE /\ currentCard' = null
         /\ cardView' = Commit(currentCard, cardView, null,
                               shufflePressCardView(cardView))
         /\ startShuffle(shuffleAnim, Zero)

\* what resetApp does to the card view
resetAppCardView(cv) ==
    [clearCardInteractionLock(clearDetailTimeouts(cv))
         EXCEPT !.flipPair = NoFlipPair, !.isFront = FALSE,
                !.isDetailMode = FALSE, !.autoFlipNext = FALSE]

\* a reset that leaves the favorites as they are
resetAppKeepingFavorites ==
    /\ selectionAnim' = AnimValueSet(0)
    /\ deckState' = [cards |-> deckState.cards, order |-> <<>>, index |-> 0]
    /\ currentCard' = null
    /\ cardView' = Commit(currentCard, cardView, null,
                          resetAppCardView(cardView))
    /\ history' = <<>>
    /\ favorites' = favorites
    /\ storage' = [storage EXCEPT !.history = <<>>, !.lastCard = NoCardId,
                                  !.favorites = JSONstringify(JsObject(<<>>))]
    /\ Selection(null, <<>>, FALSE)
    /\ tripleCards' = <<>>
    /\ activeTripleCardIndex' = 0
    /\ startShuffle(TimelineStop(shuffleAnim), SHUFFLE_START_PROGRESS_ON_OPEN)

\* resetApp, with the shuffleStartRequest effect it triggers (the effect runs
\* startShuffle before the next event is handled): the run is stopped, the
\* state cleared, and the timeline resumed at SHUFFLE_START_PROGRESS_ON_OPEN
resetApp ==
    /\ selectionAnim' = AnimValueSet(0)
    /\ deckState' = [cards |-> deckState.cards, order |-> <<>>, index |-> 0]
    /\ currentCard' = null
    /\ cardView' = Commit(currentCard, cardView, null,
                          resetAppCardView(cardView))
    /\ history' = <<>>
    /\ favorites' = JsObject(<<>>)
    /\ storage' = [storage EXCEPT !.history = <<>>, !.lastCard = NoCardId,
                                  !.favorites = JSONstringify(JsObject(<<>>))]
    /\ Selection(null, <<>>, FALSE)
    /\ tripleCards' = <<>>
    /\ activeTripleCardIndex' = 0
    /\ startShuffle(TimelineStop(shuffleAnim), SHUFFLE_START_PROGRESS_ON_OPEN)

\* const canSwipeTripleCards = tripleCards.length === 3 && currentCard !== null
canSwipeTripleCards == Len(tripleCards) = 3 /\ currentCard # null

\* handleTripleSwipe(direction): delta is 1 for "next", -1 for "prev"
handleTripleSwipe(delta) ==
    LET nextIndex == (activeTripleCardIndex + delta + Len(tripleCards))
                        % Len(tripleCards)
        nextCard == JsAt(tripleCards, nextIndex)
    IN  IF ~canSwipeTripleCards \/ cardView.isCardTransitioning
        THEN UNCHANGED <<activeTripleCardIndex, currentCard, cardView, storage>>
        ELSE /\ activeTripleCardIndex' = nextIndex
             /\ currentCard' = nextCard
             /\ cardView' = Commit(currentCard, cardView, nextCard,
                                   [cardView EXCEPT !.autoFlipNext = TRUE,
                                                    !.isFront = FALSE,
                                                    !.press.young = FALSE])
             /\ storage' = persistLastCard(storage, nextCard)

----------------------------------------------------------------------------
(* Background music: the playlist MUSIC_TRACKS, one sound instance held in
   soundRef, and the sound toggle.  A sound instance is a record of its track,
   the load version of the call that created it, its playback status and
   whether its playback-status callback is set; a call of playTrackAtIndex in
   flight is a record of its loadVersion, its index, the await it stands at
   and the sound that await is about. *)

MUSIC_TRACKS == <<"Mosslight.Whispers.mp3", "Mosslight.Whispers.2.mp3">>

\* the refs and state of the music after the mount effects have run: the
\* audio mode is being configured, and the isAudioEnabled effect has called
\* playTrackAtIndex(activeTrackIndexRef.current), which stands at its first
\* await
AudioAtMount ==
    [isAudioEnabled |-> TRUE, isAudioEnabledRef |-> TRUE,
     activeTrackIndexRef |-> 0, soundRef |-> null, audioLoadVersionRef |-> 1,
     sounds |-> <<>>,
     calls |-> {[loadVersion |-> 1, index |-> 0, pc |-> "unloadCurrentSound",
                 sound |-> null]},
     configuring |-> TRUE]

\* playTrackAtIndex(index) up to its first await: nothing while the music is
\* disabled; else the load version is advanced and unloadCurrentSound takes
\* the sound out of soundRef, removes its callback and starts its release
playTrackAtIndex(a, index) ==
    IF ~a.isAudioEnabledRef THEN a
    ELSE LET loadVersion == a.audioLoadVersionRef + 1
             activeSound == a.soundRef
         IN  [a EXCEPT
                 !.audioLoadVersionRef = loadVersion,
                 !.soundRef = null,
                 !.sounds = IF activeSound = null THEN @
                            ELSE [@ EXCEPT ![activeSound].callback = FALSE],
                 !.calls = @ \cup {[loadVersion |-> loadVersion,
                                    index |-> index,
                                    pc |-> "unloadCurrentSound",
                                    sound |-> activeSound]}]

\* index normalised into the playlist
normalizedIndex(index) ==
    ((index % Len(MUSIC_TRACKS)) + Len(MUSIC_TRACKS)) % Len(MUSIC_TRACKS)

\* sound.playAsync(): a paused sound plays on; one that has played to its end
\* plays again or stays at its end (atEnd), as the player decides
playAsync(a, atEnd) ==
    LET status == a.sounds[a.soundRef].status
    IN  [a EXCEPT !.sounds[a.soundRef].status =
            IF status = "paused" THEN "playing"
            ELSE IF status = "finished" THEN atEnd
            ELSE status]

\* sound.pauseAsync()
pauseAsync(a) ==
    [a EXCEPT !.sounds[a.soundRef].status =
        IF @ = "playing" THEN "paused" ELSE @]

\* the effect on isAudioEnabled, run after isAudioEnabled has changed
isAudioEnabledEffect(a, atEnd) ==
    IF a.isAudioEnabled
    THEN IF a.soundRef # null THEN playAsync(a, atEnd)
         ELSE playTrackAtIndex(a, a.activeTrackIndexRef)
    ELSE IF a.soundRef # null THEN pauseAsync(a) ELSE a

\* setIsAudioEnabled(next) with isAudioEnabledRef.current = next, and the
\* effect when the state has changed
setIsAudioEnabled(a, next, atEnd) ==
    LET set == [a EXCEPT !.isAudioEnabled = next, !.isAudioEnabledRef = next]
    IN  IF next = a.isAudioEnabled THEN set
        ELSE isAudioEnabledEffect(set, atEnd)

\* loadState for the audio key: a stored text other than null sets the flag
\* to whether the text is "true"
loadAudioEnabled(a, item, atEnd) ==
    IF item.text = "null" THEN a
    ELSE setIsAudioEnabled(a, item = JSONstringify(JsBoolean(TRUE)), atEnd)

----------------------------------------------------------------------------
(* Events of the screen: each handler under the condition its control is
   rendered and enabled with *)

Op(name, arg) == [name |-> name, arg |-> arg]

\* slots selected in the current draw mode
SelectedCount ==
    IF drawMode = "triple" THEN Len(selectedSlots)
    ELSE IF selectedSlot # null THEN 1 ELSE 0

\* a fan card is pressed: the fan replaces the card view when there is no
\* current card and takes no touches while shuffling
TapFanSlot(slotIndex) ==
    /\ currentCard = null
    /\ ~isShuffling
    /\ handleSelectFromFan(slotIndex)
    /\ lastOp' = Op("selectFromFan", slotIndex)
    /\ UNCHANGED <<isShuffling, shuffleAnim, drawMode, probe, platform, favorites,
                   journalEntries, audio>>

\* the shuffle button is pressed
PressShuffle ==
    /\ currentCard = null
    /\ ~isConfirmOpen
    /\ ~isShuffling
    /\ handleShufflePress
    /\ lastOp' = Op("shufflePress", 0)
    /\ lastDrawn' = <<>>
    /\ UNCHANGED <<deckState, history, selectedSlot, selectedSlots, drawMode,
                   tripleCards, activeTripleCardIndex, isConfirmOpen,
                   selectionAnim, storage, probe, platform, favorites,
                   journalEntries, audio>>

\* a step of the shuffle timeline ends and the sequence starts the next one
ShuffleAnimationStep ==
    /\ shuffleAnim.status = "running"
    /\ Len(shuffleAnim.steps) > 1
    /\ shuffleAnim' = TimelineStepEnds(shuffleAnim)
    /\ lastOp' = Op("shuffleStep", 0)
    /\ lastDrawn' = <<>>
    /\ UNCHANGED <<deckState, currentCard, history, isShuffling, selectedSlot,
                   selectedSlots, drawMode, tripleCards, activeTripleCardIndex,
                   isConfirmOpen, selectionAnim, storage, cardView, probe,
                   platform, favorites,
                   journalEntries, audio>>

\* a lift (LIFT_DURATION_MS) or an interaction lock is in flight: both are
\* started with a card on screen, and are over before a shuffle run started
\* since then ends (the shortest run, resumed at
\* SHUFFLE_START_PROGRESS_ON_OPEN, lasts 60% of SHUFFLE_TOTAL_DURATION)
LiftOrLockInFlight(cv) ==
    \/ cv.orphans # {}
    \/ cv.press.phase = "lift"
    \/ cv.cardInteractionLockTimeout # 0

\* the last step of the shuffle timeline ends: start's callback, finished
ShuffleAnimationFinished ==
    /\ shuffleAnim.status = "running"
    /\ Len(shuffleAnim.steps) = 1
    /\ ~LiftOrLockInFlight(cardView)
    /\ shuffleAnim' = TimelineStepEnds(shuffleAnim)
    /\ handleShuffleDone
    /\ lastOp' = Op("shuffleDone", 0)
    /\ lastDrawn' = <<>>
    /\ UNCHANGED <<history, drawMode, storage, probe, platform, favorites,
                   journalEntries, audio>>

\* what resetApp's stop() does to the run: 0 nothing (no run in flight),
\* 1 the run is stopped and its completion handler not called, 2 the run is
\* stopped and its completion handler called
RunStopped ==
    IF shuffleAnim.status # "running" THEN 0
    ELSE IF TimelineStop(shuffleAnim).done = shuffleAnim.done THEN 1
    ELSE 2

\* the Reset button is pressed: it is on screen with a card in detail mode
PressReset ==
    /\ currentCard # null
    /\ cardView.isDetailMode
    /\ resetApp
    /\ lastOp' = Op("resetApp", RunStopped)
    /\ lastDrawn' = <<>>
    /\ UNCHANGED <<drawMode, probe, platform, journalEntries, audio>>

\* the draw-mode toggle is pressed
PressDrawModeToggle ==
    /\ currentCard = null
    /\ canSwitchDrawMode
    /\ toggleDrawMode
    /\ lastOp' = Op("toggleDrawMode", 0)
    /\ lastDrawn' = <<>>
    /\ UNCHANGED <<deckState, currentCard, history, isShuffling, shuffleAnim,
                   storage, cardView, probe, platform, favorites,
                   journalEntries, audio>>

\* a horizontal swipe over the three drawn cards
SwipeTriple ==
    /\ canSwipeTripleCards
    /\ \E delta \in {-1, 1} : handleTripleSwipe(delta)
    /\ lastOp' = Op("tripleSwipe", 0)
    /\ lastDrawn' = <<>>
    /\ UNCHANGED <<deckState, history, isShuffling, selectedSlot, selectedSlots,
                   drawMode, tripleCards, isConfirmOpen, selectionAnim,
                   shuffleAnim, probe, platform, favorites,
                   journalEntries, audio>>

\* handleRevealPress of the mounted CardFlip, up to its first await: nothing
\* when disabled or revealing, onBeforeFlip at once on the front side, the
\* lift first on the back side
handleRevealPress(os, card, cv) ==
    IF cv.isCardInteractionLocked THEN cv
    ELSE IF cv.press.phase # "none" THEN cv
    ELSE IF cv.isFront THEN handleCardTap(os, cv, Closure(card, cv))
    ELSE [cv EXCEPT !.press = [phase |-> "lift",
                               closure |-> Closure(card, cv),
                               young |-> cv.autoFlipNext]]

\* presses still lifting, in the mounted CardFlip and in unmounted ones
PendingPresses ==
    Cardinality(cardView.orphans)
        + (IF cardView.press.phase = "lift" THEN 1 ELSE 0)

\* whether the card takes no tap: locked by lockCardInteraction
CardLocked(cv) == cv.isCardInteractionLocked \/ cv.isCardTransitioning

\* the current card is pressed
TapCard ==
    /\ currentCard # null
    /\ LET next == handleRevealPress(platform, currentCard, cardView)
       IN  /\ next.press.phase = "lift" /\ cardView.press.phase # "lift"
                  => PendingPresses < MaxPendingPresses
           /\ cardView' = Commit(currentCard, cardView, currentCard, next)
    /\ lastOp' = Op("cardTap", IF CardLocked(cardView) THEN 1 ELSE 0)
    /\ lastDrawn' = <<>>
    /\ UNCHANGED <<deckState, currentCard, history, isShuffling, selectedSlot,
                   selectedSlots, drawMode, tripleCards, activeTripleCardIndex,
                   isConfirmOpen, selectionAnim, shuffleAnim, storage, probe,
                   platform, favorites,
                   journalEntries, audio>>

\* the lift of the mounted CardFlip ends: onBeforeFlip, then the settling.
\* A lift that began while the auto-flip timeout was pending ends after the
\* timeout has fired, the lift taking longer than the delay.
LiftEnds ==
    /\ cardView.press.phase = "lift"
    /\ ~(/\ cardView.press.young
         /\ cardView.autoFlipNext
         /\ LIFT_DURATION_MS > AUTO_FLIP_DELAY_MS)
    /\ LET lifted == [cardView EXCEPT !.press = [phase |-> "settle",
                                                 closure |-> <<>>,
                                                 young |-> FALSE]]
       IN  cardView' = Commit(currentCard, lifted, currentCard,
                              handleCardTap(platform, lifted,
                                            cardView.press.closure))
    /\ lastOp' = Op("onBeforeFlip", IF CardLocked(cardView) THEN 1 ELSE 0)
    /\ lastDrawn' = <<>>
    /\ UNCHANGED <<deckState, currentCard, history, isShuffling, selectedSlot,
                   selectedSlots, drawMode, tripleCards, activeTripleCardIndex,
                   isConfirmOpen, selectionAnim, shuffleAnim, storage, probe,
                   platform, favorites,
                   journalEntries, audio>>

\* the lift of an unmounted CardFlip ends: the onBeforeFlip it was given
OrphanLiftEnds ==
    /\ \E c \in cardView.orphans :
          LET left == [cardView EXCEPT !.orphans = @ \ {c}]
          IN  cardView' = Commit(currentCard, left, currentCard,
                                 handleCardTap(platform, left, c))
    /\ lastOp' = Op("onBeforeFlip", IF CardLocked(cardView) THEN 1 ELSE 0)
    /\ lastDrawn' = <<>>
    /\ UNCHANGED <<deckState, currentCard, history, isShuffling, selectedSlot,
                   selectedSlots, drawMode, tripleCards, activeTripleCardIndex,
                   isConfirmOpen, selectionAnim, shuffleAnim, storage, probe,
                   platform, favorites,
                   journalEntries, audio>>

\* the settling of the mounted CardFlip ends: isRevealing.current = false
SettleEnds ==
    /\ cardView.press.phase = "settle"
    /\ cardView' = [cardView EXCEPT !.press = NoPress]
    /\ lastOp' = Op("settle", 0)
    /\ lastDrawn' = <<>>
    /\ UNCHANGED <<deckState, currentCard, history, isShuffling, selectedSlot,
                   selectedSlots, drawMode, tripleCards, activeTripleCardIndex,
                   isConfirmOpen, selectionAnim, shuffleAnim, storage, probe,
                   platform, favorites,
                   journalEntries, audio>>

\* a timeout of the card view fires; the lock outlasts a content swap
\* scheduled before it (DETAIL_CONTENT_SWAP_MS is under every lock duration)
CardTimeout(name, enabled, next) ==
    /\ enabled
    /\ cardView' = Commit(currentCard, cardView, currentCard, next)
    /\ lastOp' = Op(name, 0)
    /\ lastDrawn' = <<>>
    /\ UNCHANGED <<deckState, currentCard, history, isShuffling, selectedSlot,
                   selectedSlots, drawMode, tripleCards, activeTripleCardIndex,
                   isConfirmOpen, selectionAnim, shuffleAnim, storage, probe,
                   platform, favorites,
                   journalEntries, audio>>

AutoFlipTimeout ==
    CardTimeout("autoFlip", currentCard # null /\ cardView.autoFlipNext,
                autoFlipTimeout(cardView))

CardInteractionLockTimeout ==
    CardTimeout("lockTimeout",
                /\ cardView.cardInteractionLockTimeout # 0
                /\ cardView.detailContentSwap # null
                      => cardView.cardInteractionLockTimeout
                             < DETAIL_CONTENT_SWAP_MS,
                cardInteractionLockTimeout(cardView))

\* the interactions are over: the callback handed to runAfterInteractions
\* sets the timeout of the flip to the detail side
InteractionsDone ==
    CardTimeout("interactionsDone", cardView.detailFlip = "afterInteractions",
                [cardView EXCEPT !.detailFlip = "timeout"])

DetailFlipTimeout ==
    CardTimeout("detailFlip", cardView.detailFlip = "timeout",
                detailFlipTimeout(cardView))

DetailContentSwapTimeout ==
    CardTimeout("contentSwap", cardView.detailContentSwap # null,
                detailContentSwapTimeout(cardView, currentCard))

\* a frame of the timing animation on selectionAnim; the last frame ends the
\* animation and runs its callback
SelectionAnimFrame ==
    /\ selectionAnim.toValue # null
    /\ LET v == selectionAnim.value
           t == selectionAnim.toValue
           next == IF v < t THEN v + 1 ELSE IF v > t THEN v - 1 ELSE v
       IN  IF next = t
           THEN /\ selectionAnim' = AnimValueSet(next)
                /\ IF selectionAnim.onEnd = "cancel"
                   THEN /\ cancelCallback
                        /\ lastOp' = Op("cancelDone", SelectedCount)
                   ELSE /\ UNCHANGED <<selectedSlot, selectedSlots,
                                       isConfirmOpen>>
                        /\ lastOp' = Op("animFrame", 0)
           ELSE /\ selectionAnim' = [selectionAnim EXCEPT !.value = next]
                /\ UNCHANGED <<selectedSlot, selectedSlots, isConfirmOpen>>
                /\ lastOp' = Op("animFrame", 0)
    /\ lastDrawn' = <<>>
    /\ UNCHANGED <<deckState, currentCard, history, isShuffling, drawMode,
                   tripleCards, activeTripleCardIndex, shuffleAnim, storage,
                   cardView, probe, platform, favorites,
                   journalEntries, audio>>

\* confirmSelection(false): the command no control of this revision issues
CancelSelection ==
    /\ handleConfirmSelection(FALSE)
    /\ lastOp' = Op("cancel", SelectedCount)
    /\ UNCHANGED <<isShuffling, shuffleAnim, drawMode, probe, platform, favorites,
                   journalEntries, audio>>

\* toggleDrawMode(): the handler called whatever the state of its control
\* (the Pressable is disabled while canSwitchDrawMode is false)
InvokeToggleDrawMode ==
    /\ toggleDrawMode
    /\ lastOp' = Op("toggleDrawMode", 1)
    /\ lastDrawn' = <<>>
    /\ UNCHANGED <<deckState, currentCard, history, isShuffling, shuffleAnim,
                   storage, cardView, probe, platform, favorites,
                   journalEntries, audio>>

\* loadState resumes after its reads: setHistory(parsed) with the history
\* that was stored when the screen mounted, and setFavorites and
\* setJournalEntries for the keys that held a text
LoadState ==
    /\ storage.pending
    /\ history' = storage.read
    /\ LET loaded == loadState([favorites |-> storage.readFavorites,
                                history |-> NoItem,
                                journal |-> storage.readJournal])
       IN  /\ favorites' = IF ItemPresent(storage.readFavorites)
                           THEN loaded.favorites ELSE favorites
           /\ journalEntries' = IF ItemPresent(storage.readJournal)
                                THEN loaded.journalEntries ELSE journalEntries
    /\ \E atEnd \in {"finished", "playing"} :
          /\ audio' = loadAudioEnabled(audio, storage.readAudioEnabled, atEnd)
          /\ audio'.audioLoadVersionRef <= MaxLoads
    /\ storage' = [storage EXCEPT !.pending = FALSE]
    /\ lastOp' = Op("loadState", 0)
    /\ lastDrawn' = <<>>
    /\ UNCHANGED <<deckState, currentCard, isShuffling, selectedSlot,
                   selectedSlots, drawMode, tripleCards, activeTripleCardIndex,
                   isConfirmOpen, selectionAnim, shuffleAnim, cardView, probe,
                   platform>>

\* the values of initialProgress explored: the grid from under 0 to over 1,
\* and the value the screen resumes at when it opens
\* the phases of the run, in the order consumeElapsed is called for them
PhaseDurations ==
    <<COLLAPSE_DURATION, HOLD_BEFORE_SHAKE, SHAKE_DURATION, HOLD_AFTER_SHAKE,
      SWIRL_DURATION, SWIRL_RESET_DURATION, SWIRL_DURATION,
      SWIRL_RESET_DURATION, EXPAND_DURATION>>

RECURSIVE PhaseStart(_)
\* the time the phases before phase i take together
PhaseStart(i) ==
    IF i = 1 THEN 0 ELSE PhaseStart(i - 1) + PhaseDurations[i - 1]

\* the progress that falls in the middle of each phase
PhaseMidpoints ==
    {[n |-> 2 * PhaseStart(i) + PhaseDurations[i],
      d |-> 2 * SHUFFLE_TOTAL_DURATION] : i \in 1..Len(PhaseDurations)}

ProgressInputs ==
    {[n |-> k, d |-> ProgressResolution] : k \in -1..(ProgressResolution + 1)}
    \cup {SHUFFLE_START_PROGRESS_ON_OPEN}
    \cup PhaseMidpoints

\* a value of initialProgress handed to startShuffle
ProbeProgress(initialProgress) ==
    [ProbeIdle EXCEPT !.op = "progress", !.progress = initialProgress]

\* startShuffle(initialProgress), and next to it the start of the timeline
\* that cannot resume
ProbeStartShuffle ==
    /\ probe.op = "progress"
    /\ probe' = [probe EXCEPT
                    !.op = "startShuffle",
                    !.timeline = TimelineStart(ShuffleTimeline(probe.progress)),
                    !.fresh = TimelineStart(startShuffleFresh)]
    /\ UNCHANGED appVars

\* the step in flight ends, in either timeline that is still running
ProbeTimelineStep ==
    /\ probe.op \in {"startShuffle", "timelineStep"}
    /\ probe.timeline.status = "running" \/ probe.fresh.status = "running"
    /\ probe' = [probe EXCEPT
                    !.op = "timelineStep",
                    !.timeline = IF probe.timeline.status = "running"
                                 THEN TimelineStepEnds(probe.timeline)
                                 ELSE probe.timeline,
                    !.fresh = IF probe.fresh.status = "running"
                              THEN TimelineStepEnds(probe.fresh)
                              ELSE probe.fresh]
    /\ UNCHANGED appVars

\* resetApp() called while a run of the shuffle timeline is in flight (its
\* button is on screen only with a card in detail mode)
InvokeResetApp ==
    /\ shuffleAnim.status = "running"
    /\ resetApp
    /\ lastOp' = Op("resetApp", RunStopped)
    /\ lastDrawn' = <<>>
    /\ UNCHANGED <<drawMode, probe, platform, journalEntries, audio>>

\* handleShufflePress() called while a shuffle is in progress (its Pressable
\* is disabled while isShuffling)
InvokeShufflePress ==
    /\ isShuffling
    /\ handleShufflePress
    /\ lastOp' = Op("shufflePress", 1)
    /\ lastDrawn' = <<>>
    /\ UNCHANGED <<deckState, history, selectedSlot, selectedSlots, drawMode,
                   tripleCards, activeTripleCardIndex, isConfirmOpen,
                   selectionAnim, storage, probe, platform, favorites,
                   journalEntries, audio>>

----------------------------------------------------------------------------
(* Specifications *)

\* the screen once mounted: the useState initial values, and the shuffle run
\* the mount effects start (setShuffleStartRequest, then startShuffle)
AppInit(n) ==
    /\ deckState = [cards |-> Catalog(n), order |-> <<>>, index |-> 0]
    /\ currentCard = null
    /\ history = <<>>
    /\ isShuffling = TRUE
    /\ shuffleAnim = TimelineStart(ShuffleTimeline(SHUFFLE_START_PROGRESS_ON_OPEN))
    /\ selectedSlot = null
    /\ selectedSlots = <<>>
    /\ drawMode = "single"
    /\ tripleCards = <<>>
    /\ activeTripleCardIndex = 0
    /\ isConfirmOpen = FALSE
    /\ selectionAnim = AnimValueSet(0)
    /\ cardView = CardViewAtRest
    /\ favorites = StateAtMount.favorites
    /\ journalEntries = StateAtMount.journalEntries
    /\ audio = AudioAtMount
    /\ lastOp = Op("mount", 0)
    /\ lastDrawn = <<>>

\* first launch: nothing stored, so loadState applies nothing
Init ==
    /\ probe = ProbeIdle
    /\ storage = StorageEmpty
    /\ platform \in Platforms
    /\ \E n \in 1..MaxCards : AppInit(n)

Next ==
    \/ \E slotIndex \in Slots : TapFanSlot(slotIndex)
    \/ PressShuffle
    \/ ShuffleAnimationStep
    \/ ShuffleAnimationFinished
    \/ PressReset
    \/ PressDrawModeToggle
    \/ SwipeTriple
    \/ SelectionAnimFrame
    \/ TapCard
    \/ LiftEnds
    \/ OrphanLiftEnds
    \/ SettleEnds
    \/ AutoFlipTimeout
    \/ CardInteractionLockTimeout
    \/ InteractionsDone
    \/ DetailFlipTimeout
    \/ DetailContentSwapTimeout

\* the screen as its controls drive it
Spec == Init /\ [][Next]_vars

NextCmd ==
    \/ Next
    \/ CancelSelection

\* the screen, and the cancel command issued from outside
SpecCmd == Init /\ [][NextCmd]_vars

NextCall ==
    \/ Next
    \/ InvokeToggleDrawMode
    \/ InvokeResetApp
    \/ InvokeShufflePress

\* the screen, and its handlers called while their controls are disabled or
\* off screen
SpecCall == Init /\ [][NextCall]_vars

InitDeck ==
    /\ probe \in {ProbeStart(st) : st \in UNION {DeckStates(n) : n \in 0..MaxCards}}
                 \cup {ProbeList(list) : list \in CardLists}
    /\ storage = StorageEmpty
    /\ platform = "web"
    /\ AppInit(1)

NextDeck ==
    \/ ProbeDrawNext
    \/ ProbeShuffle

\* the history an earlier session left in storage: len entries, the cards of
\* a catalog of n drawn in turn, newest first
StoredHistory(len, n) == [i \in 1..len |-> ((len - i) % n) + 1]

\* a later launch, of the Android build: a stored history that loadState has
\* read and not yet applied
InitLoad ==
    /\ probe = ProbeIdle
    /\ platform = "android"
    /\ \E n \in 1..MaxCards, len \in StoredLengths :
          /\ AppInit(n)
          /\ storage = [StorageEmpty EXCEPT
                           !.history = StoredHistory(len, n), !.lastCard = 1,
                           !.pending = TRUE, !.read = StoredHistory(len, n)]

\* the Journal button of the detail actions, a draft typed, and Save and
\* Close: saveJournal with the current card (the modal takes every touch
\* while it is open)
SaveJournal ==
    /\ currentCard # null
    /\ cardView.isDetailMode
    /\ Len(journalEntries.items) < MaxJournalEntries
    /\ \E draft \in {<<"a">>, <<" ">>} :
          LET next == saveJournal([journalEntries |-> journalEntries],
                                  currentCard, draft, MaxTime, 0)
          IN  /\ journalEntries' = next.journalEntries
              /\ storage' = IF trim(draft) = <<>> THEN storage
                            ELSE [storage EXCEPT !.journal =
                                     JSONstringify(next.journalEntries)]
    /\ lastOp' = Op("saveJournal", 0)
    /\ lastDrawn' = <<>>
    /\ UNCHANGED <<deckState, currentCard, history, isShuffling, selectedSlot,
                   selectedSlots, drawMode, tripleCards, activeTripleCardIndex,
                   isConfirmOpen, selectionAnim, shuffleAnim, cardView, probe,
                   platform, favorites, audio>>

\* resetApp called while no shuffle is running, in whatever state
InvokeResetAppIdle ==
    /\ shuffleAnim.status # "running"
    /\ resetApp
    /\ lastOp' = Op("resetApp", RunStopped)
    /\ lastDrawn' = <<>>
    /\ UNCHANGED <<drawMode, probe, platform, journalEntries, audio>>

\* a later launch of the Android build with a catalog of one card (as
\* shipped) or two: one history entry, a favorite and a journal entry stored,
\* read by loadState and not yet applied
InitReset ==
    /\ probe = ProbeIdle
    /\ platform = "android"
    /\ \E n \in 1..2 :
          LET storedFavorites ==
                  JSONstringify(JsObject(<<[key |-> CardIdText(1),
                                            value |-> JsBoolean(TRUE)]>>))
              storedJournals ==
                  JSONstringify(JsArray(<<JournalEntry(
                      <<"journal-0-0">>, <<CardIdText(1)>>, <<"a">>,
                      toISOString(0))>>))
          IN  /\ AppInit(n)
              /\ storage = [StorageEmpty EXCEPT
                               !.history = StoredHistory(1, n), !.lastCard = 1,
                               !.pending = TRUE, !.read = StoredHistory(1, n),
                               !.favorites = storedFavorites,
                               !.readFavorites = storedFavorites,
                               !.journal = storedJournals,
                               !.readJournal = storedJournals]

NextReset ==
    \/ Next
    \/ LoadState
    \/ SaveJournal
    \/ InvokeResetApp
    \/ InvokeResetAppIdle

\* the screen with stored favorites and journal entries, the journal, and
\* resetApp called in every state
SpecReset == InitReset /\ [][NextReset]_vars

\* the variables of the card screen, which the music does not touch
cardScreenVars == <<probe, deckState, currentCard, history, isShuffling,
                    selectedSlot, selectedSlots, drawMode, tripleCards,
                    activeTripleCardIndex, isConfirmOpen, selectionAnim,
                    shuffleAnim, cardView, platform, lastOp, lastDrawn,
                    favorites, journalEntries>>

\* Audio.setAudioModeAsync settles, by resolving or by the error caught:
\* configureAndStartAudio goes on to playTrackAtIndex(0) if the music is
\* enabled
ConfigureAudioSettled ==
    /\ audio.configuring
    /\ audio' = [playTrackAtIndex(audio, 0) EXCEPT !.configuring = FALSE]
    /\ audio'.audioLoadVersionRef <= MaxLoads
    /\ UNCHANGED <<cardScreenVars, storage>>

\* the sound toggle is pressed: toggleAudio, and the effect on isAudioEnabled
ToggleAudio ==
    /\ \E atEnd \in {"finished", "playing"} :
          audio' = setIsAudioEnabled(audio, ~audio.isAudioEnabled, atEnd)
    /\ audio'.audioLoadVersionRef <= MaxLoads
    /\ storage' = [storage EXCEPT !.audioEnabled =
                      JSONstringify(JsBoolean(~audio.isAudioEnabled))]
    /\ UNCHANGED cardScreenVars

\* the await of unloadCurrentSound in a call of playTrackAtIndex ends: the
\* sound taken out of soundRef is released, and the call starts
\* Audio.Sound.createAsync for its track
UnloadSettled ==
    \E call \in audio.calls :
        /\ call.pc = "unloadCurrentSound"
        /\ LET released ==
                   IF call.sound = null THEN audio.sounds
                   ELSE [audio.sounds EXCEPT ![call.sound].status = "unloaded"]
               sound == [track |-> normalizedIndex(call.index),
                         loadVersion |-> call.loadVersion,
                         status |-> "loading", callback |-> FALSE]
           IN  audio' = [audio EXCEPT
                   !.sounds = Append(released, sound),
                   !.calls = (@ \ {call}) \cup
                             {[call EXCEPT !.pc = "createAsync",
                                           !.sound = Len(released) + 1]}]
        /\ UNCHANGED <<cardScreenVars, storage>>

\* Audio.Sound.createAsync settles in a call of playTrackAtIndex.  Rejected
\* (autoplay blocked): the call ends.  Resolved: the sound is playing
\* (shouldPlay); a call whose load version is no longer the current one goes
\* on to unload the sound, the other stores it in soundRef with its track
\* index and sets the playback-status callback
CreateSettled ==
    \E call \in audio.calls, resolved \in BOOLEAN :
        /\ call.pc = "createAsync"
        /\ audio' =
              IF ~resolved
              THEN [audio EXCEPT !.sounds[call.sound].status = "failed",
                                 !.calls = @ \ {call}]
              ELSE IF call.loadVersion # audio.audioLoadVersionRef
              THEN [audio EXCEPT
                      !.sounds[call.sound].status = "playing",
                      !.calls = (@ \ {call}) \cup
                                {[call EXCEPT !.pc = "sound.unloadAsync"]}]
              ELSE [audio EXCEPT
                      !.sounds[call.sound].status = "playing",
                      !.sounds[call.sound].callback = TRUE,
                      !.soundRef = call.sound,
                      !.activeTrackIndexRef = normalizedIndex(call.index),
                      !.calls = @ \ {call}]
        /\ UNCHANGED <<cardScreenVars, storage>>

\* the unload of a superseded sound settles, and its call returns
DiscardSettled ==
    \E call \in audio.calls :
        /\ call.pc = "sound.unloadAsync"
        /\ audio' = [audio EXCEPT !.sounds[call.sound].status = "unloaded",
                                  !.calls = @ \ {call}]
        /\ UNCHANGED <<cardScreenVars, storage>>

\* a playing sound reaches its end (isLooping: false): its callback, if it
\* is still set, calls playTrackAtIndex for the next track while the music is
\* enabled
TrackFinished ==
    \E id \in DOMAIN audio.sounds :
        /\ audio.sounds[id].status = "playing"
        /\ LET ended == [audio EXCEPT !.sounds[id].status = "finished"]
           IN  audio' =
                 IF audio.sounds[id].callback /\ audio.isAudioEnabledRef
                 THEN playTrackAtIndex(ended,
                          (audio.activeTrackIndexRef + 1) % Len(MUSIC_TRACKS))
                 ELSE ended
        /\ audio'.audioLoadVersionRef <= MaxLoads
        /\ UNCHANGED <<cardScreenVars, storage>>

\* a launch with nothing stored for the sound toggle, or with either value
\* of it stored, read by loadState and not yet applied
InitAudio ==
    /\ probe = ProbeIdle
    /\ platform = "web"
    /\ AppInit(1)
    /\ \E item \in {NoItem, JSONstringify(JsBoolean(TRUE)),
                     JSONstringify(JsBoolean(FALSE))} :
          storage = [StorageEmpty EXCEPT !.pending = TRUE,
                                         !.audioEnabled = item,
                                         !.readAudioEnabled = item]

NextAudio ==
    \/ LoadState
    \/ ConfigureAudioSettled
    \/ ToggleAudio
    \/ UnloadSettled
    \/ CreateSettled
    \/ DiscardSettled
    \/ TrackFinished

\* the music of the screen, from the launch on
SpecAudio == InitAudio /\ [][NextAudio]_vars

NextLoad ==
    \/ Next
    \/ LoadState

\* the screen with a stored history to load (the history modal, whose button
\* clears the history, is never opened: nothing sets isHistoryOpen to true)
SpecLoad == InitLoad /\ [][NextLoad]_vars

\* the deck engine's functions applied to every input within the bounds
SpecDeck == InitDeck /\ [][NextDeck]_vars

\* the texts of the model: empty, blank, a letter, a letter between blanks
Texts == {<<>>, <<" ">>, <<"a">>, <<" ", "a", " ">>}

\* the values of a stored legacy map: texts, and values that are no strings
LegacyValues == {JsString(chars) : chars \in Texts} \cup {JsNumber(1), JsNull}

\* the legacy maps cardId -> text of up to MaxStoredItems cards
LegacyMaps ==
    UNION {{JsObject([i \in 1..k |->
                         [key |-> CardIdText(i), value |-> values[i]]]) :
               values \in [1..k -> LegacyValues]} : k \in 0..MaxStoredItems}

\* the items of a stored array: entries as saveJournal writes them, and
\* items that are no entries (no object, a field missing, a field no string)
ArrayItems ==
    {JournalEntry(<<"journal-" \o ToString(t) \o "-0">>, <<CardIdText(1)>>,
                  <<"a">>, toISOString(t)) : t \in Times}
    \cup {JsNull, JsNumber(1), JsString(<<"a">>),
          JsObject(<<[key |-> "cardId", value |-> JsString(<<CardIdText(1)>>)],
                     [key |-> "entry", value |-> JsString(<<"a">>)],
                     [key |-> "createdAt",
                      value |-> JsString(toISOString(0))]>>),
          JsObject(<<[key |-> "id", value |-> JsString(<<"journal-0-1">>)],
                     [key |-> "cardId", value |-> JsString(<<CardIdText(1)>>)],
                     [key |-> "entry", value |-> JsNumber(1)],
                     [key |-> "createdAt",
                      value |-> JsString(toISOString(0))]>>)}

\* the arrays of up to MaxStoredItems items
StoredArrays ==
    UNION {{JsArray(items) : items \in [1..k -> ArrayItems]} :
              k \in 0..MaxStoredItems}

\* values that are neither an array nor an object
Scalars == {JsNull, JsNumber(1), JsString(<<"a">>), JsBoolean(TRUE)}

\* what the three keys can hold at mount
StoredJournals ==
    {NoItem, EmptyText, NotJSON}
    \cup {JSONstringify(value) :
             value \in LegacyMaps \cup StoredArrays \cup Scalars}

StoredFavorites ==
    {NoItem, EmptyText, NotJSON}
    \cup {JSONstringify(value) :
             value \in {JsObject(<<>>),
                        JsObject(<<[key |-> CardIdText(1),
                                    value |-> JsBoolean(TRUE)]>>),
                        JsArray(<<>>)} \cup Scalars}

StoredHistories ==
    {NoItem, EmptyText, NotJSON}
    \cup {JSONstringify(value) :
             value \in {JsArray(<<>>),
                        JsArray(<<HistoryEntry(<<CardIdText(1)>>, <<"title">>,
                                               toISOString(0))>>),
                        JsObject(<<>>)} \cup Scalars}

\* the store at mount, one key written
ProbeStored(key, item) ==
    [ProbeIdle EXCEPT !.op = "stored", !.stored[key] = item]

\* loadState()
ProbeLoadState ==
    /\ probe.op = "stored"
    /\ probe' = [probe EXCEPT !.op = "loadState",
                              !.loaded = loadState(probe.stored),
                              !.outcome = loadState(probe.stored)]
    /\ UNCHANGED appVars

\* one more command on the loaded state, unless the last one threw
ProbeCommand(name, next) ==
    /\ probe.op \in {"loadState", "command"}
    /\ probe.outcome # TypeError
    /\ probe.commands < MaxCommands
    /\ probe' = [probe EXCEPT !.op = "command", !.outcome = next,
                              !.commands = probe.commands + 1,
                              !.arg = <<name>>]
    /\ UNCHANGED appVars

\* a draw: drawNextCard calls recordHistory(card)
ProbeRecordHistory ==
    ProbeCommand("recordHistory", recordHistoryStored(probe.outcome, 1, 1))

ProbeToggleFavorite ==
    ProbeCommand("toggleFavorite", toggleFavorite(probe.outcome, 1))

ProbeSaveJournal ==
    \E draft \in {<<"a">>, <<" ">>} :
        ProbeCommand("saveJournal", saveJournal(probe.outcome, 1, draft, 1, 0))

InitStore ==
    /\ probe \in {ProbeStored("favorites", item) : item \in StoredFavorites}
                 \cup {ProbeStored("history", item) : item \in StoredHistories}
                 \cup {ProbeStored("journal", item) : item \in StoredJournals}
    /\ storage = StorageEmpty
    /\ platform = "web"
    /\ AppInit(1)

NextStore ==
    \/ ProbeLoadState
    \/ ProbeRecordHistory
    \/ ProbeToggleFavorite
    \/ ProbeSaveJournal

\* loadState and the commands that use what it loaded, for every stored
\* value within the bounds
SpecStore == InitStore /\ [][NextStore]_vars

InitTimeline ==
    /\ probe \in {ProbeProgress(initialProgress) :
                     initialProgress \in ProgressInputs}
    /\ storage = StorageEmpty
    /\ platform = "web"
    /\ AppInit(1)

NextTimeline ==
    \/ ProbeStartShuffle
    \/ ProbeTimelineStep

\* the shuffle timeline started at every progress value within the bounds
SpecTimeline == InitTimeline /\ [][NextTimeline]_vars

----------------------------------------------------------------------------
(* Claims about the screen *)

\* slots the current draw mode requires before it asks for confirmation
RequiredCount == IF drawMode = "triple" THEN 3 ELSE 1

RECURSIVE Reverse(_)
Reverse(s) == IF Len(s) = 0 THEN <<>> ELSE Append(Reverse(Tail(s)), Head(s))

\* C6: after any sequence of draws, re-shuffles and resets from the initial
\* deck state, the cursor lies inside a non-empty order, every card a draw
\* returned is an element of order, order is empty or a permutation of the
\* catalog, and a committed re-shuffle leaves a permutation of the catalog
\* with the cursor at 0.
C6_CursorStaysInOrder ==
    /\ Len(deckState.order) > 0 =>
          deckState.index \in 0..(Len(deckState.order) - 1)
    /\ \A i \in 1..Len(lastDrawn) : lastDrawn[i] \in Range(deckState.order)
    /\ deckState.order = <<>> \/ IsPermutation(deckState.order, deckState.cards)
    /\ lastOp.name = "shuffleDone" =>
          /\ IsPermutation(deckState.order, deckState.cards)
          /\ deckState.index = 0

C6_Witness ==
    /\ Len(lastDrawn) = 3
    /\ Len(deckState.order) = 3
    /\ deckState.order # deckState.cards
    /\ deckState.index = 0

\* C7: confirmation is pending only with the required number of slots
\* selected: a selected slot in single-card mode, exactly three selected
\* slots in three-card mode.
C7_ConfirmNeedsFullSelection ==
    isConfirmOpen =>
        IF drawMode = "single"
        THEN selectedSlot \in Slots
        ELSE Len(selectedSlots) = 3 /\ IsDistinct(selectedSlots)

C7_Witness ==
    /\ isConfirmOpen
    /\ drawMode = "triple"
    /\ Len(selectedSlots) = 3
    /\ lastOp.name = "cancel"

C9_TapOnSelectedConfirms ==
    [][\A s \in Slots :
         (/\ lastOp' = Op("selectFromFan", s)
          /\ isConfirmOpen
          /\ IF drawMode = "triple"
             THEN s \in Range(selectedSlots) /\ Len(selectedSlots) = 3
             ELSE selectedSlot = s) =>
           /\ selectedSlot' = null
           /\ selectedSlots' = <<>>
           /\ ~isConfirmOpen'
           /\ selectionAnim' = AnimValueSet(0)
           /\ Len(lastDrawn') = RequiredCount
           /\ history' = Reverse(lastDrawn') \o history
           /\ currentCard' = lastDrawn'[1]
           /\ deckState'.index =
                 (deckState.index + RequiredCount) % Len(deckState.order)]_vars

C9_Witness ==
    /\ lastOp.name = "selectFromFan"
    /\ Len(lastDrawn) = 3
    /\ selectedSlots = <<>>
    /\ ~isConfirmOpen
    /\ Len(history) = 3

\* the callback of the cancel animation runs in this step: the animation
\* ends, or a handler stops it
CancelCallbackRuns ==
    CancelPending /\ (~CancelPending' \/ lastOp'.name = "cancel")

\* C10: cancelling performs no draw (deck, history and current card are as
\* before, and the 1 -> 0 animation is in flight after the call), and once
\* the animation's callback has run no slot is selected and confirmation is
\* not pending.
C10_CancelClearsWithoutDraw ==
    [][/\ lastOp'.name \in {"cancel", "cancelDone"} =>
             /\ deckState' = deckState
             /\ history' = history
             /\ currentCard' = currentCard
       /\ lastOp'.name = "cancel" => CancelPending'
       /\ (CancelCallbackRuns \/ lastOp'.name = "cancelDone") =>
             /\ selectedSlot' = null
             /\ selectedSlots' = <<>>
             /\ ~isConfirmOpen']_vars

C10_Witness ==
    /\ lastOp = Op("cancelDone", 3)
    /\ selectedSlots = <<>>
    /\ ~isConfirmOpen
    /\ selectionAnim = AnimValueSet(0)

\* Idle with nothing selected and no shuffle in progress
IdleNothingSelected ==
    /\ currentCard = null
    /\ selectedSlot = null
    /\ selectedSlots = <<>>
    /\ ~isConfirmOpen
    /\ ~isShuffling

\* C11: the draw mode changes only in a call of toggleDrawMode from Idle with
\* nothing selected and no shuffle in progress; called in any other state,
\* toggleDrawMode leaves the draw mode, the selection and every other state
\* variable as they were.
C11_ToggleOnlyFromIdle ==
    [][/\ drawMode' # drawMode =>
             (lastOp'.name = "toggleDrawMode" /\ IdleNothingSelected)
       /\ (lastOp'.name = "toggleDrawMode" /\ IdleNothingSelected) =>
             drawMode' # drawMode
       /\ (lastOp'.name = "toggleDrawMode" /\ ~IdleNothingSelected) =>
             UNCHANGED <<deckState, currentCard, history, isShuffling,
                         selectedSlot, selectedSlots, drawMode, tripleCards,
                         activeTripleCardIndex, isConfirmOpen, selectionAnim,
                         shuffleAnim>>]_vars

C11_Witness ==
    /\ lastOp = Op("toggleDrawMode", 1)
    /\ drawMode = "triple"
    /\ Len(selectedSlots) = 2
    /\ ~isShuffling

ConfirmingTap(s) ==
    /\ lastOp' = Op("selectFromFan", s)
    /\ isConfirmOpen
    /\ IF drawMode = "triple"
       THEN s \in Range(selectedSlots) /\ Len(selectedSlots) = 3
       ELSE selectedSlot = s

\* the k newest entries of h are the cards of drawn, last drawn first, and
\* behind them come the entries of prev in their order, up to the cap
RecordedBehind(h, prev, drawn) ==
    LET k == Len(drawn)
    IN  /\ Len(h) = Min(HistoryLimit, Len(prev) + k)
        /\ \A i \in 1..k : h[i] = drawn[k + 1 - i]
        /\ \A i \in (k + 1)..Len(h) : h[i] = prev[i - k]

\* C13: a confirmed selection applies drawNext the required number of times
\* (1 in single-card mode, 3 in three-card mode), each call on the state the
\* previous call returned: the cards drawn are the next ones of the order,
\* the cursor advances by that number, and the history gets one entry per
\* card drawn, recorded in draw order.
C13_ConfirmDrawsRequiredCount ==
    [][\A s \in Slots :
         ConfirmingTap(s) =>
           LET total == Len(deckState.cards)
           IN  /\ Len(lastDrawn') = RequiredCount
               /\ Len(deckState.order) > 0 => deckState'.order = deckState.order
               /\ \A i \in 1..RequiredCount :
                     lastDrawn'[i] =
                        JsAt(deckState'.order, (deckState.index + i - 1) % total)
               /\ deckState'.index = (deckState.index + RequiredCount) % total
               /\ RecordedBehind(history', history, lastDrawn')]_vars

C13_Witness ==
    /\ lastOp.name = "selectFromFan"
    /\ Len(lastDrawn) = 3
    /\ IsDistinct(lastDrawn)
    /\ Len(history) > 3
    /\ deckState.index = 0

\* C14: after a confirmed draw the value stored under the last-card key is
\* the id of the most recently drawn card, in three-card mode the last of
\* the three cards drawNext returned.
C14_LastCardIsMostRecent ==
    Len(lastDrawn) > 0 => storage.lastCard = lastDrawn[Len(lastDrawn)]

\* C15: the history never holds more than 200 entries, and a draw puts its
\* entry at index 0 with the previous entries in their order behind it, the
\* oldest one evicted when the log already held 200.
C15_HistoryCapped ==
    [][/\ Len(history) <= HistoryLimit
       /\ Len(history') <= HistoryLimit
       /\ \A s \in Slots :
             ConfirmingTap(s) =>
                /\ RecordedBehind(history', history, lastDrawn')
                /\ history'[1] = lastDrawn'[Len(lastDrawn')]
                /\ Len(history) = HistoryLimit =>
                      /\ Len(history') = HistoryLimit
                      /\ history'[HistoryLimit] =
                            history[HistoryLimit - Len(lastDrawn')]
       /\ lastOp'.name = "resetApp" => history' = <<>>
       /\ lastOp'.name = "loadState" => history' = storage.read]_vars

C15_Witness ==
    /\ lastOp.name = "selectFromFan"
    /\ Len(lastDrawn) = 1
    /\ Len(storage.read) = HistoryLimit
    /\ ~storage.pending
    /\ Len(history) = HistoryLimit
    /\ history[1] = lastDrawn[1]

\* C16: resumed at p = 0 the timeline starts with the phase values (all 0)
\* and the queued steps, durations included, of a fresh run, and goes through
\* the same phase values step by step; resumed at p = 1 it queues no step,
\* leaves every phase value at 0 and calls the completion handler.
C16_ResumeAtEnds ==
    probe.op \in {"startShuffle", "timelineStep"} =>
        /\ probe.progress.n = 0 =>
              /\ probe.timeline = probe.fresh
              /\ probe.op = "startShuffle" =>
                    /\ probe.timeline.fanCollapse = Zero
                    /\ probe.timeline.shuffleShake = Zero
                    /\ probe.timeline.shuffleSwirl = Zero
                    /\ probe.timeline.steps = startShuffleFresh.steps
                    /\ probe.timeline.done = 0
        /\ probe.progress.n = probe.progress.d =>
              /\ probe.timeline.steps = <<>>
              /\ probe.timeline.status = "finished"
              /\ probe.timeline.fanCollapse = Zero
              /\ probe.timeline.shuffleShake = Zero
              /\ probe.timeline.shuffleSwirl = Zero
              /\ probe.timeline.done = 1

C16_Witness ==
    /\ probe.op = "timelineStep"
    /\ probe.progress.n = probe.progress.d
    /\ probe.timeline.done = 1
    /\ probe.fresh.shuffleSwirl = One

\* C17: the completion handler runs exactly once for a run that finishes, in
\* the step its last phase ends, and commits the re-shuffle; it does not run
\* for a run that is stopped; stopping a stopped or finished run changes
\* nothing; and once a newer run has started no earlier run is left that
\* could still call back.
C17_CompletionOncePerFinishedRun ==
    [][/\ lastOp'.name = "shuffleDone" =>
             /\ shuffleAnim.status = "running"
             /\ Len(shuffleAnim.steps) = 1
             /\ shuffleAnim.done = 0
       /\ (shuffleAnim.status = "running" /\ shuffleAnim'.status = "finished") =>
             /\ lastOp'.name = "shuffleDone"
             /\ shuffleAnim'.done = 1
             /\ IsPermutation(deckState'.order, deckState.cards)
             /\ deckState'.index = 0
             /\ ~isShuffling'
       /\ shuffleAnim'.done <= 1
       /\ shuffleAnim'.status # "running" => shuffleAnim'.done = 1
       /\ lastOp'.name = "resetApp" =>
             /\ lastOp'.arg \in {0, 1}
             /\ TimelineStop(shuffleAnim).done = shuffleAnim.done
             /\ deckState'.order = <<>>
             /\ shuffleAnim'.status = "running"
             /\ shuffleAnim'.done = 0
             /\ shuffleAnim'.stale = <<>>
       /\ TimelineStop(TimelineStop(shuffleAnim')) = TimelineStop(shuffleAnim')
       /\ shuffleAnim'.status # "running" =>
             TimelineStop(shuffleAnim') = shuffleAnim']_vars

C17_Witness ==
    /\ lastOp = Op("resetApp", 1)
    /\ shuffleAnim.status = "running"
    /\ shuffleAnim.done = 0
    /\ deckState.order = <<>>
    /\ isShuffling

\* the phase values a run resumed at SHUFFLE_START_PROGRESS_ON_OPEN starts
\* from: collapsed, and 482.2 ms into the first swirl of 800 ms
PhasesOnOpen(t) ==
    /\ t.fanCollapse = [n |-> 1, d |-> 1]
    /\ t.shuffleShake = [n |-> 0, d |-> 1]
    /\ t.shuffleSwirl = [n |-> 2411, d |-> 4000]

\* C18: at most one run of the shuffle timeline is active: a shuffle is in
\* progress exactly while the one run is running, the step that starts a new
\* run leaves no earlier run running and sets all three phase values before
\* the new run begins, and a shuffle request made while a shuffle is in
\* progress changes nothing.
C18_SingleActiveRun ==
    [][/\ shuffleAnim.stale = <<>> /\ shuffleAnim'.stale = <<>>
       /\ isShuffling' <=> shuffleAnim'.status = "running"
       /\ (lastOp'.name = "shufflePress" /\ ~isShuffling) =>
             /\ shuffleAnim.status # "running"
             /\ shuffleAnim'.status = "running"
             /\ shuffleAnim'.steps = startShuffleFresh.steps
             /\ shuffleAnim'.fanCollapse = [n |-> 0, d |-> 1]
             /\ shuffleAnim'.shuffleShake = [n |-> 0, d |-> 1]
             /\ shuffleAnim'.shuffleSwirl = [n |-> 0, d |-> 1]
       /\ lastOp'.name = "resetApp" =>
             /\ TimelineStop(shuffleAnim).status # "running"
             /\ shuffleAnim'.status = "running"
             /\ PhasesOnOpen(shuffleAnim')
       /\ (lastOp'.name = "shufflePress" /\ isShuffling) =>
             UNCHANGED <<deckState, currentCard, history, isShuffling,
                         selectedSlot, selectedSlots, drawMode, tripleCards,
                         activeTripleCardIndex, isConfirmOpen, selectionAnim,
                         shuffleAnim, storage, cardView>>]_vars

C18_Witness ==
    /\ lastOp = Op("shufflePress", 1)
    /\ isShuffling
    /\ shuffleAnim.status = "running"
    /\ Head(shuffleAnim.steps).value = "delay"

\* what a tap of the card acts on: isFront, detail mode, the flip content
\* pair, and the timeouts scheduled
RevealState(cv) ==
    <<cv.isFront, cv.isDetailMode, cv.flipPair, cv.autoFlipNext,
      cv.cardInteractionLockTimeout, cv.detailFlip, cv.detailContentSwap>>

\* the step is a tap that gets to handleCardTap: at once from the front
\* side, at the end of the lift from the back side
TapReachesHandler ==
    \/ lastOp'.name = "onBeforeFlip"
    \/ /\ lastOp'.name = "cardTap"
       /\ cardView.isFront
       /\ cardView.press.phase = "none"

\* C19: of two taps on the current card, the second arriving within the
\* interaction-lock window the first opened, only the first makes a
\* reveal-state transition: a tap that gets to the handler with no lock held
\* turns the card over and opens the lock window, and a tap made or handled
\* while the lock is held changes neither isFront, detail mode, the flip
\* content pair nor any scheduled timeout.
C19_SecondTapIgnored ==
    [][/\ lastOp'.name \in {"cardTap", "onBeforeFlip"} /\ CardLocked(cardView)
             => /\ RevealState(cardView') = RevealState(cardView)
                /\ CardLocked(cardView')
       /\ TapReachesHandler /\ ~CardLocked(cardView)
             => /\ cardView'.isFront # cardView.isFront
                /\ CardLocked(cardView')]_vars

C19_Witness ==
    /\ currentCard # null
    /\ lastOp = Op("cardTap", 1)
    /\ CardLocked(cardView)
    /\ cardView.isDetailMode
    /\ cardView.detailFlip # "none"

\* the detail visual of a card on the front face
DetailVisual(os, card) ==
    IF os = "ios" THEN [node |-> "detailBgNode", card |-> card]
    ELSE [node |-> "detailFullNode", card |-> card]

\* C20: whenever a flip to the front side has completed (isFront true and no
\* transition in flight), the front face of the flip pair shows what the
\* logical state asks for: the face of the current card when detail mode is
\* off, its detail visual when detail mode is on.  Content that does not
\* match is on the front face only while a transition is in flight.
C20_FrontFaceMatchesState ==
    currentCard # null /\ cardView.isFront /\ ~CardLocked(cardView)
        => cardView.flipPair.front =
              IF cardView.isDetailMode THEN DetailVisual(platform, currentCard)
              ELSE [node |-> "frontNode", card |-> currentCard]

C20_Witness ==
    /\ currentCard # null
    /\ cardView.isFront
    /\ ~CardLocked(cardView)
    /\ cardView.isDetailMode
    /\ cardView.detailFlip = "none"
    /\ cardView.detailContentSwap = null
    /\ lastOp.name = "lockTimeout"
    /\ cardView.flipPair.front = DetailVisual(platform, currentCard)

\* the time elapsed at progress p of a run, in units of 1 / p.d ms
ElapsedAt(p) == SHUFFLE_TOTAL_DURATION * Min(Max(p.n, 0), p.d)

\* the phase that is partly consumed at progress p (the phase that begins
\* there when p is at a boundary), Len(PhaseDurations) + 1 at the end
PhaseAt(p) ==
    IF ElapsedAt(p) >= SHUFFLE_TOTAL_DURATION * p.d
    THEN Len(PhaseDurations) + 1
    ELSE CHOOSE i \in 1..Len(PhaseDurations) :
            /\ PhaseStart(i) * p.d <= ElapsedAt(p)
            /\ ElapsedAt(p) < (PhaseStart(i) + PhaseDurations[i]) * p.d

\* the part of phase i that is consumed at progress p, as a number in 0..1
PartOfPhase(p, i) ==
    Ratio(ElapsedAt(p) - PhaseStart(i) * p.d, PhaseDurations[i] * p.d)

\* 1 - r
Complement(r) == Ratio(r.d - r.n, r.d)

\* the fan collapse at progress p: rising in the collapse, 1 up to the
\* expand, falling in the expand, 0 at the end
CollapseAt(p) ==
    LET i == PhaseAt(p)
    IN  IF i = 1 THEN PartOfPhase(p, 1)
        ELSE IF i = 9 THEN Complement(PartOfPhase(p, 9))
        ELSE IF i = 10 THEN Zero
        ELSE One

\* the swirl at progress p: 0 before the first pass, rising in each pass,
\* falling in each reset, 0 from the expand on
SwirlAt(p) ==
    LET i == PhaseAt(p)
    IN  IF i \in {5, 7} THEN PartOfPhase(p, i)
        ELSE IF i \in {6, 8} THEN Complement(PartOfPhase(p, i))
        ELSE Zero

\* C23: a run started at progress p in [0, 1] has every phase value where
\* the timeline is at that progress: the collapse at collapseElapsed /
\* COLLAPSE_DURATION during the collapse, at 1 between collapse and expand,
\* at 1 - expandElapsed / EXPAND_DURATION during the expand; the swirl at
\* the elapsed part of the pass during the first swirl pass and likewise
\* during the second.
C23_PhaseValuesAtProgress ==
    /\ probe.op = "startShuffle"
    /\ probe.progress.n >= 0
    /\ probe.progress.n <= probe.progress.d
    => /\ probe.timeline.fanCollapse = CollapseAt(probe.progress)
       /\ probe.timeline.shuffleSwirl = SwirlAt(probe.progress)

\* the same without the second swirl pass and the boundary it begins at
C23_PhaseValuesBeforeSecondPass ==
    /\ probe.op = "startShuffle"
    /\ probe.progress.n >= 0
    /\ probe.progress.n <= probe.progress.d
    => /\ probe.timeline.fanCollapse = CollapseAt(probe.progress)
       /\ \/ PhaseAt(probe.progress) = 7
          \/ ElapsedAt(probe.progress) = PhaseStart(6) * probe.progress.d
          \/ probe.timeline.shuffleSwirl = SwirlAt(probe.progress)

\* a run started in the second swirl pass with the swirl at 0
C23_SecondPassFromZero ==
    /\ probe.op = "startShuffle"
    /\ PhaseAt(probe.progress) = 7
    /\ ElapsedAt(probe.progress) > PhaseStart(7) * probe.progress.d
    /\ probe.timeline.shuffleSwirl = Zero
    /\ probe.timeline.fanCollapse = One

RECURSIVE QueuedDuration(_, _)
\* the time the steps take one after the other, in units of 1 / u ms (u a
\* multiple of the denominator of every duration); a sequence takes the time
\* of its steps
QueuedDuration(steps, u) ==
    IF steps = <<>> THEN 0
    ELSE LET step == Head(steps)
             own == IF "steps" \in DOMAIN step
                    THEN QueuedDuration(step.steps, u)
                    ELSE step.duration.n * (u \div step.duration.d)
         IN  own + QueuedDuration(Tail(steps), u)

\* the units the durations of a run started at progress p are counted in
DurationUnits(p) == 2 * SHUFFLE_SHAKE_STEPS * p.d

\* what is left of the whole run at progress p, in the same units
RemainingAt(p) ==
    (SHUFFLE_TOTAL_DURATION * p.d - ElapsedAt(p)) * 2 * SHUFFLE_SHAKE_STEPS

\* C24: the steps queued by a run started at progress p in [0, 1] take
\* together the total duration minus the elapsed time, also when p falls
\* inside the shake phase.
C24_QueuedDurationIsRemainder ==
    /\ probe.op = "startShuffle"
    /\ probe.progress.n >= 0
    /\ probe.progress.n <= probe.progress.d
    => QueuedDuration(probe.timeline.steps, DurationUnits(probe.progress))
          = RemainingAt(probe.progress)

\* the same for every progress that is not inside the shake phase
C24_RemainderOutsideShake ==
    /\ probe.op = "startShuffle"
    /\ probe.progress.n >= 0
    /\ probe.progress.n <= probe.progress.d
    /\ \/ PhaseAt(probe.progress) # 3
       \/ ElapsedAt(probe.progress) = PhaseStart(3) * probe.progress.d
    => QueuedDuration(probe.timeline.steps, DurationUnits(probe.progress))
          = RemainingAt(probe.progress)

\* a run started inside the shake phase that queues the whole shake
C24_WholeShakeQueued ==
    /\ probe.op = "startShuffle"
    /\ PhaseAt(probe.progress) = 3
    /\ ElapsedAt(probe.progress) > PhaseStart(3) * probe.progress.d
    /\ Head(probe.timeline.steps) = Sequence(shakeSteps)
    /\ QueuedDuration(probe.timeline.steps, DurationUnits(probe.progress))
          > RemainingAt(probe.progress)

----------------------------------------------------------------------------
(* Claims about the persisted values (checked under SpecStore) *)

\* a text of blanks only
Blank(chars) == \A i \in 1..Len(chars) : chars[i] = " "

\* a text without the blanks around it
Inner(chars) ==
    LET inked == {i \in 1..Len(chars) : chars[i] # " "}
    IN  IF inked = {} THEN <<>>
        ELSE SubSeq(chars, CHOOSE i \in inked : \A j \in inked : i <= j,
                    CHOOSE i \in inked : \A j \in inked : i >= j)

\* an item with the four fields of a journal entry, each a string
WellFormed(item) ==
    /\ item.type = "object"
    /\ \A field \in {"id", "cardId", "entry", "createdAt"} :
          \E i \in 1..Len(item.entries) :
             /\ item.entries[i].key = field
             /\ item.entries[i].value.type = "string"

\* how often the item occurs in the list
Occurrences(list, item) == Cardinality({i \in 1..Len(list) : list[i] = item})

\* C21: loading a journal key that holds the legacy map cardId -> text gives
\* exactly one entry per key whose value is a string that is not blank, with
\* that cardId and that text (without the blanks around it), and no entry
\* for any other value; a key that holds an array gives the well-formed
\* entries of the array, each as often as the array has it, and nothing
\* else.
C21_LegacyAndArrayJournals ==
    (probe.op = "loadState" /\ probe.stored.journal.text = "JSON") =>
        LET value == probe.stored.journal.value
            out == probe.loaded.journalEntries.items
        IN  /\ value.type = "object" =>
                 LET texts == {i \in 1..Len(value.entries) :
                                  /\ value.entries[i].value.type = "string"
                                  /\ ~Blank(value.entries[i].value.chars)}
                 IN  /\ Len(out) = Cardinality(texts)
                     /\ \A i \in texts :
                           \E j \in 1..Len(out) :
                              /\ Get(out[j], "cardId")
                                    = JsString(<<value.entries[i].key>>)
                              /\ Get(out[j], "entry")
                                    = JsString(Inner(
                                          value.entries[i].value.chars))
                              /\ \A k \in 1..Len(out) :
                                    Get(out[k], "cardId")
                                       = Get(out[j], "cardId") => k = j
            /\ value.type = "array" =>
                 /\ \A j \in 1..Len(out) : WellFormed(out[j])
                 /\ \A i \in 1..Len(value.items) :
                       WellFormed(value.items[i]) =>
                          Occurrences(out, value.items[i])
                             = Occurrences(value.items, value.items[i])
                 /\ \A j \in 1..Len(out) :
                       Occurrences(value.items, out[j]) > 0

\* a legacy map with a blank value and a text between blanks: one entry
C21_Witness ==
    /\ probe.op = "loadState"
    /\ probe.stored.journal.text = "JSON"
    /\ probe.stored.journal.value.type = "object"
    /\ Len(probe.stored.journal.value.entries) = MaxStoredItems
    /\ probe.stored.journal.value.entries[1].value = JsString(<<" ">>)
    /\ probe.stored.journal.value.entries[MaxStoredItems].value
          = JsString(<<" ", "a", " ">>)
    /\ Len(probe.loaded.journalEntries.items) >= 1
    /\ Get(probe.loaded.journalEntries.items[1], "entry") = JsString(<<"a">>)

\* an array with an entry and an item that is none: the entry alone
C21_ArrayWitness ==
    /\ probe.op = "loadState"
    /\ probe.stored.journal.text = "JSON"
    /\ probe.stored.journal.value.type = "array"
    /\ Len(probe.stored.journal.value.items) = MaxStoredItems
    /\ Len(probe.loaded.journalEntries.items) = 1

\* the stored item of the key is not what the app writes under it: text that
\* is not JSON, or the JSON of a value of another kind
Malformed(key) ==
    LET item == probe.stored[key]
    IN  /\ ItemPresent(item)
        /\ \/ item.text # "JSON"
           \/ item.value.type # (IF key = "favorites" THEN "object" ELSE "array")
              /\ ~(key = "journal" /\ item.value.type = "object")

\* the state loadState sets from the key
LoadedOf(key) ==
    IF key = "journal" THEN probe.loaded.journalEntries ELSE probe.loaded[key]

\* C22: malformed data under the favorites, history or journal key is
\* loaded as the empty state of that key, and no command run after loading
\* any stored text fails.
C22_MalformedLoadsAsDefault ==
    /\ probe.op = "loadState" =>
          \A key \in {"favorites", "history", "journal"} :
             Malformed(key) =>
                LoadedOf(key)
                   = IF key = "journal" THEN StateAtMount.journalEntries
                     ELSE StateAtMount[key]
    /\ probe.op = "command" => probe.outcome # TypeError

\* the same for text that is not JSON and for all that the journal key holds
C22_NotJSONLoadsAsDefault ==
    (\/ probe.stored.journal # NoItem
     \/ \E key \in {"favorites", "history"} : probe.stored[key] = NotJSON)
    => /\ probe.op = "loadState" =>
             \A key \in {"favorites", "history", "journal"} :
                Malformed(key) =>
                   LoadedOf(key)
                      = IF key = "journal" THEN StateAtMount.journalEntries
                        ELSE StateAtMount[key]
       /\ probe.op = "command" => probe.outcome # TypeError

\* a stored history that is JSON and no array, loaded as it is, and the
\* draw after it throwing
C22_RecordHistoryThrows ==
    /\ probe.op = "command"
    /\ probe.arg = <<"recordHistory">>
    /\ probe.stored.history = JSONstringify(JsObject(<<>>))
    /\ probe.loaded.history = JsObject(<<>>)
    /\ probe.outcome = TypeError

\* stored favorites that are JSON null, and the toggle after it throwing
C22_ToggleFavoriteThrows ==
    /\ probe.op = "command"
    /\ probe.arg = <<"toggleFavorite">>
    /\ probe.stored.favorites = JSONstringify(JsNull)
    /\ probe.outcome = TypeError

----------------------------------------------------------------------------
(* Claims about the screen, continued *)

\* C25: the step in which a shuffle timeline completes commits the
\* re-shuffle: the order is a permutation of the catalog, the cursor 0, no
\* current card, no selection, no confirmation pending, the collapse, shake
\* and swirl values 0, isShuffling false; and while a shuffle is in progress
\* no other step (a step of the run, a shuffle request, a tap) changes the
\* order or the cursor.
C25_CompletionCommitsReshuffle ==
    [][/\ lastOp'.name = "shuffleDone" =>
             /\ shuffleAnim.status = "running"
             /\ shuffleAnim'.status = "finished"
             /\ IsPermutation(deckState'.order, deckState.cards)
             /\ deckState'.cards = deckState.cards
             /\ deckState'.index = 0
             /\ currentCard' = null
             /\ selectedSlot' = null
             /\ selectedSlots' = <<>>
             /\ ~isConfirmOpen'
             /\ shuffleAnim'.fanCollapse = Zero
             /\ shuffleAnim'.shuffleShake = Zero
             /\ shuffleAnim'.shuffleSwirl = Zero
             /\ ~isShuffling'
       /\ (isShuffling /\ lastOp'.name # "shuffleDone") =>
             deckState' = deckState
       /\ lastOp'.name \in {"shuffleStep", "shufflePress"} =>
             deckState' = deckState]_vars

\* a run completed: the deck of MaxCards cards has an order
C25_Witness ==
    /\ lastOp.name = "shuffleDone"
    /\ deckState.index = 0
    /\ Len(deckState.order) = MaxCards
    /\ IsPermutation(deckState.order, deckState.cards)
    /\ selectedSlot = null
    /\ selectedSlots = <<>>
    /\ currentCard = null
    /\ ~isShuffling
    /\ shuffleAnim.status = "finished"

\* a tap on slot s confirms the selection: confirmation is pending and the
\* slot is one of the full selection
Confirming(s) ==
    /\ ~isShuffling
    /\ isConfirmOpen
    /\ IF drawMode = "triple"
       THEN s \in Range(selectedSlots) /\ Len(selectedSlots) = 3
       ELSE selectedSlot = s

\* C28: the cursor advances and the history grows only in a step that
\* confirms a selection: a tap that selects or deselects a slot, a cancel,
\* a switch of the draw mode, a tap on the card, a swipe between the three
\* drawn cards and a shuffle request leave the deck and the history as they
\* are and draw no card (a completed shuffle and a reset set the cursor to
\* 0, and a reset empties the history; neither draws).
C28_OnlyConfirmedSelectionDraws ==
    [][LET confirms == /\ lastOp'.name = "selectFromFan"
                       /\ Confirming(lastOp'.arg)
       IN  /\ (history' # history /\ lastOp'.name # "resetApp") => confirms
           /\ (/\ deckState'.index # deckState.index
               /\ lastOp'.name \notin {"resetApp", "shuffleDone"}) => confirms
           /\ lastDrawn' # <<>> => confirms
           /\ lastOp'.name \in {"resetApp", "shuffleDone"} =>
                 /\ deckState'.index = 0
                 /\ Len(history') <= Len(history)
           /\ (\/ lastOp'.name \in {"cancel", "cancelDone", "toggleDrawMode",
                                    "cardTap", "onBeforeFlip", "tripleSwipe",
                                    "shufflePress"}
               \/ lastOp'.name = "selectFromFan" /\ ~confirms) =>
                 /\ deckState' = deckState
                 /\ history' = history
                 /\ lastDrawn' = <<>>]_vars

\* a swipe between three cards drawn by one confirmed selection: three
\* entries, and the cursor three further
C28_Witness ==
    /\ lastOp.name = "tripleSwipe"
    /\ activeTripleCardIndex # 0
    /\ Len(history) = 3
    /\ Len(deckState.order) = MaxCards
    /\ deckState.index = 3 % MaxCards

\* the step takes the card away or puts another in its place
CardReplaced ==
    lastOp'.name \in {"tripleSwipe", "resetApp", "shufflePress", "shuffleDone",
                      "selectFromFan"}

\* C26: the step of a confirmed draw leaves the new current card on Back
\* with the auto-flip mark set; while the mark is set the card turns to
\* Front only by the auto-flip timeout, which clears the mark; and a card on
\* Front is turned to Back only by a tap made while it is on Front (or by a
\* step that replaces the card).
C26_AutoFlipThenStaysFront ==
    [][/\ lastDrawn' # <<>> =>
             /\ currentCard' # null
             /\ ~cardView'.isFront
             /\ cardView'.autoFlipNext
       /\ (cardView.autoFlipNext /\ ~cardView.isFront /\ cardView'.isFront) =>
             /\ lastOp'.name = "autoFlip"
             /\ ~cardView'.autoFlipNext
       /\ lastOp'.name = "autoFlip" =>
             /\ cardView'.isFront
             /\ ~cardView'.autoFlipNext
       /\ (cardView.isFront /\ ~cardView'.isFront /\ ~CardReplaced) =>
             lastOp'.name = "cardTap"]_vars

\* the first part: the draw leaves Back with the mark, and the timeout
\* turns the card to Front and clears the mark
C26_DrawThenAutoFlip ==
    [][/\ lastDrawn' # <<>> =>
             /\ currentCard' # null
             /\ ~cardView'.isFront
             /\ cardView'.autoFlipNext
       /\ lastOp'.name = "autoFlip" =>
             /\ cardView'.isFront
             /\ ~cardView'.autoFlipNext]_vars

\* a card drawn in single mode that is on Back again after its auto-flip,
\* turned by the onBeforeFlip of a tap made before the auto-flip
C26_TurnedBackByEarlierTap ==
    /\ currentCard # null
    /\ drawMode = "single"
    /\ Len(history) = 1
    /\ lastOp = Op("onBeforeFlip", 0)
    /\ ~cardView.isFront
    /\ ~cardView.autoFlipNext
    /\ ~cardView.isDetailMode
    /\ cardView.detailFlip = "none"
    /\ cardView.press.phase = "settle"

\* C27: whenever there is no current card the card view is at Back (isFront
\* false) with detail mode off, also after a callback scheduled by an
\* earlier tap on the card has run.
C27_NoCardMeansBackAndNoDetail ==
    currentCard = null => ~cardView.isFront /\ ~cardView.isDetailMode

\* the steps that take the card away leave Back with detail mode off, and
\* detail mode stays off while there is no card
C27_CardRemovedAtBack ==
    [][/\ (currentCard # null /\ currentCard' = null) =>
             ~cardView'.isFront /\ ~cardView'.isDetailMode
       /\ currentCard' = null => ~cardView'.isDetailMode]_vars

\* the fan view after a reset, isFront set by the timeout that the
\* InteractionManager callback of the tap before the reset has set
C27_FrontWithoutCard ==
    /\ currentCard = null
    /\ platform # "web"
    /\ lastOp.name = "detailFlip"
    /\ cardView.isFront
    /\ ~cardView.isDetailMode
    /\ cardView.orphans = {}
    /\ history = <<>>

\* C29: resetApp, in whatever state it is called, leaves no earlier shuffle
\* run running and no card timeout pending, the deck unshuffled (order
\* empty, cursor 0), no current card, the card view at Back with detail mode
\* off, no selection and no confirmation pending, the history and the
\* favorites empty, and a new shuffle run started; the journal entries and
\* the draw mode are as before.
C29_ResetClearsAllButJournalAndMode ==
    [][lastOp'.name = "resetApp" =>
          /\ TimelineStop(shuffleAnim).status # "running"
          /\ shuffleAnim'.stale = <<>>
          /\ cardView'.cardInteractionLockTimeout = 0
          /\ ~CardLocked(cardView')
          /\ cardView'.detailFlip # "timeout"
          /\ cardView'.detailContentSwap = null
          /\ ~cardView'.autoFlipNext
          /\ deckState' = [cards |-> deckState.cards, order |-> <<>>,
                           index |-> 0]
          /\ currentCard' = null
          /\ ~cardView'.isFront
          /\ ~cardView'.isDetailMode
          /\ cardView'.flipPair = NoFlipPair
          /\ selectedSlot' = null
          /\ selectedSlots' = <<>>
          /\ tripleCards' = <<>>
          /\ ~isConfirmOpen'
          /\ history' = <<>>
          /\ storage'.history = <<>>
          /\ favorites' = JsObject(<<>>)
          /\ storage'.favorites = JSONstringify(JsObject(<<>>))
          /\ isShuffling'
          /\ shuffleAnim'.status = "running"
          /\ shuffleAnim'.done = 0
          /\ PhasesOnOpen(shuffleAnim')
          /\ journalEntries' = journalEntries
          /\ storage'.journal = storage.journal
          /\ drawMode' = drawMode]_vars

\* a reset in three-card mode after the stored favorites and journal were
\* loaded and an entry was saved: the favorites are empty, the entries kept
C29_Witness ==
    /\ lastOp.name = "resetApp"
    /\ ~storage.pending
    /\ drawMode = "triple"
    /\ favorites = JsObject(<<>>)
    /\ storage.favorites = JSONstringify(JsObject(<<>>))
    /\ Len(journalEntries.items) = MaxJournalEntries
    /\ storage.journal = JSONstringify(journalEntries)
    /\ history = <<>>
    /\ currentCard = null
    /\ isShuffling


\* a sound instance that has been created and not released
Loaded(sound) == sound.status \in {"playing", "paused", "finished"}

\* no call of playTrackAtIndex is in flight, and the launch has settled
AudioSettled ==
    /\ audio.calls = {}
    /\ ~audio.configuring
    /\ ~storage.pending

\* C30: once all pending track loads have settled, no sound is playing while
\* the music is disabled
C30_SilentWhileDisabled ==
    (AudioSettled /\ ~audio.isAudioEnabledRef)
        => \A id \in DOMAIN audio.sounds : audio.sounds[id].status # "playing"

\* C30, second part: the sound held in soundRef is loaded and comes from the
\* latest call of playTrackAtIndex, and once the loads have settled no other
\* loaded sound exists
C30_OneSoundRetained ==
    /\ audio.soundRef # null =>
          /\ Loaded(audio.sounds[audio.soundRef])
          /\ audio.sounds[audio.soundRef].loadVersion
                = audio.audioLoadVersionRef
    /\ AudioSettled =>
          \A id \in DOMAIN audio.sounds :
              Loaded(audio.sounds[id]) => id = audio.soundRef

\* a superseded load has completed and been unloaded, and the latest is held
C30_SupersededUnloaded ==
    /\ AudioSettled
    /\ audio.soundRef # null
    /\ \E id \in DOMAIN audio.sounds :
          /\ audio.sounds[id].status = "unloaded"
          /\ audio.sounds[id].loadVersion < audio.audioLoadVersionRef
          /\ id > audio.soundRef

\* the music was disabled while a load was in flight, the load has completed,
\* and its sound is held and playing
C30_PlayingWhileDisabled ==
    /\ AudioSettled
    /\ ~audio.isAudioEnabled
    /\ ~audio.isAudioEnabledRef
    /\ audio.soundRef # null
    /\ audio.sounds[audio.soundRef].status = "playing"

============================================================================
